---- MODULE Spec2Model ----
(***************************************************************************)
(* A model of the scheduling work-queue engine of CalendarServer,          *)
(* txdav/caldav/datastore/scheduling/work.py.                              *)
(*                                                                         *)
(* The database is modelled at READ COMMITTED isolation: SW, IT, JOB, sra  *)
(* and caldata hold the committed rows; every worker transaction keeps its *)
(* own write set tx[p], applied by the step that commits it and dropped by *)
(* the step that aborts it.  A statement reads the committed rows of the   *)
(* moment it runs.  Row locks are held until the transaction ends.         *)
(*                                                                         *)
(* Time is kept relative to the current time: job[j].notBefore is the      *)
(* number of seconds from now to the job's notBefore (0: it has elapsed),  *)
(* so "utcnow() + timedelta(seconds=d)" is d, "utcnow()" is 0, and a tick  *)
(* of the clock takes one from every positive notBefore.                   *)
(***************************************************************************)
EXTENDS Integers, Sequences, FiniteSets, TLC

\* ---------------------------------------------------------------- bounds
\* Calls of the enqueueing class methods (schedule, reply, refreshAttendees,
\* autoReply, migrate) by callers.
MaxCalls == 3
\* Work ids (SCHEDULE_WORK.WORK_ID values): one for each call and one more
\* for the item an execution of each may enqueue in its turn.
MaxWork == 2 * MaxCalls
\* Largest stagger, in seconds, ScheduleOrganizerSendWork.schedule is given.
MaxStagger == 1
\* the exceptions raised in the executions of one job
MaxErrors == 1

\* The worker executions (each bound to its own transaction).
Workers == {1, 2}

\* ------------------------------------------------ configuration options
\* config.Scheduling.Options.WorkQueues.* and AttendeeRefreshBatch, scaled
\* down to small values.
RequestDelaySeconds == 1
ReplyDelaySeconds == 1
AutoReplyDelaySeconds == 1
AttendeeRefreshBatchDelaySeconds == 1
AttendeeRefreshBatchIntervalSeconds == 1
MaxTemporaryFailures == 2
TemporaryFailureDelay == 1
\* the delay of the job primitive after an exception of a job
failureRescheduleInterval == 1
AttendeeRefreshBatch == 2

\* ----------------------------------------------------- the five kinds
KOrganizer == "ScheduleOrganizerWork"
KSend == "ScheduleOrganizerSendWork"
KReply == "ScheduleReplyWork"
KRefresh == "ScheduleRefreshWork"
KAutoReply == "ScheduleAutoReplyWork"
allScheduleWork == {KOrganizer, KSend, KReply, KRefresh, KAutoReply}

\* ------------------------------------------------------ the object store
\* Calendar object resources; None is resource id 0 ("not yet created").
None == 0
ResourceIDs == {1, 2}
\* resource.uid(): the iCalendar UID of a resource.
UidOf(r) == IF r = 1 THEN "U1" ELSE "U2"
UIDs == {UidOf(r) : r \in ResourceIDs}
\* resource._home.id()
HomeOf(r) == 10 + r
\* The resource holding the calendar data of a UID.
ResourceOfUid(u) == CHOOSE r \in ResourceIDs : UidOf(r) = u

\* Calendar user addresses: the organizer, the attendees of the event and
\* one address that no property of the event has.
Organizer == "org"
Attendees == {"A", "B", "C"}
Stranger == "X"
\* The ATTENDEE and ORGANIZER properties of a calendar object.
Props == {<<"ORGANIZER", Organizer>>} \cup {<<"ATTENDEE", a>> : a \in Attendees}

\* iTIPRequestStatus codes (the part of a request status before ';').
MESSAGE_PENDING_CODE == "1.0"
MESSAGE_DELIVERED_CODE == "1.2"
NO_USER_SUPPORT_CODE == "3.8"
SERVICE_UNAVAILABLE_CODE == "5.1"
NoStatus == "none"

VARIABLES
    rec,        \* rec[id]: the columns of work item id that never change
    job,        \* job[id]: the JOB row of the item: notBefore, failed, pause
    SW,         \* ids with a committed SCHEDULE_WORK (WorkGroup) row
    IT,         \* ids with a committed row in their kind's table
    JOB,        \* ids with a committed JOB row
    nextID,     \* the next work id of the sequence
    sra,        \* committed SCHEDULE_REFRESH_ATTENDEES rows [row, res, att]
    nextRow,    \* the next row identity of sra
    caldata,    \* caldata[r][prop]: SCHEDULE-STATUS of the property
    resources,  \* the calendar object resources that exist
    queued,     \* ScheduleWorkMixin._queued
    pc,         \* pc[p]: where worker p is in JobItem.run
    cur,        \* cur[p]: the job (= work id) worker p runs
    locks,      \* locks[p]: SCHEDULE_WORK rows locked by p's transaction
    tx,         \* tx[p]: the write set of p's transaction
    loc,        \* loc[p]: the local variables and outcome of p's doWork
    namedLock,  \* namedLock[u]: holder of NamedLock "ImplicitUIDLock:md5(u)"
    trig,       \* trig[t]: a caller inside refreshAttendees
    requested,  \* requested[r]: attendees asked for by the triggers so far
    raced,      \* raced[r]: two calls of refreshAttendees for r have overlapped
    migrated,   \* the last call of migrate: its item, the mapping, the result
                \* and the work id it created
    cascade,    \* the kind rows locked by an uncommitted transaction of the
                \* object store that deletes them by cascade
    drain,      \* ScheduleWorkMixin._allDoneCallback (callback), the times
                \* the callback was called (fired), a post-commit hook that
                \* found no callback (error), and the items whose execution
                \* was committed (completed)
    inside,     \* the UIDs a synchronous, non-queue mutator is processing
                \* in the scheduling collaborator
    removing    \* the resources a mutator has issued the deletion of, which
                \* waits for the locks of the rows deleted by cascade

dbVars == <<rec, job, SW, IT, JOB, nextID, sra, nextRow, caldata, resources>>
workerVars == <<pc, cur, locks, tx, loc, namedLock>>
envVars == <<trig, requested, raced, migrated, cascade, drain, inside, removing>>
vars == <<dbVars, workerVars, envVars, queued>>

WorkIDs == 1..MaxWork
NoWork == [workType |-> "none", icalendarUID |-> "none", homeResourceID |-> None,
           resourceID |-> None, attendee |-> "none", attendeeCount |-> 0]
NoJob == [notBefore |-> 0, failed |-> 0, pause |-> 0]
EmptyTx == [del |-> {}, delItems |-> {}, newWork |-> {}, sraDel |-> {},
            promoted |-> {}, status |-> {}]
EmptyLoc == [rows |-> {}, pendingRows |-> {}, pendingAttendees |-> {},
             attendeesToProcess |-> {}, queuedResponses |-> <<>>,
             responses |-> <<>>, resource |-> None,
             raised |-> "none", delay |-> 0, dequeued |-> 0, sent |-> {},
             postCommit |-> FALSE, ownLock |-> FALSE]
NoTrig == [pc |-> "idle", res |-> None, attendees |-> {}, pending |-> {}]
Triggers == {1, 2}
NoDrain ==
    [callback |-> FALSE, fired |-> 0, error |-> FALSE, completed |-> {},
     armedAt |-> 0]
NoMigration == [work |-> 0, new_home |-> None, new_resource |-> None,
                result |-> FALSE, created |-> 0]

Max(a, b) == IF a >= b THEN a ELSE b
Min(a, b) == IF a <= b THEN a ELSE b

Init ==
    /\ rec = [i \in WorkIDs |-> NoWork]
    /\ job = [i \in WorkIDs |-> NoJob]
    /\ SW = {} /\ IT = {} /\ JOB = {}
    /\ nextID = 1
    /\ sra = {}
    /\ nextRow = 1
    /\ caldata = [r \in ResourceIDs |-> [p \in Props |-> NoStatus]]
    /\ resources = ResourceIDs
    /\ queued = 0
    /\ pc = [p \in Workers |-> "idle"]
    /\ cur = [p \in Workers |-> 0]
    /\ locks = [p \in Workers |-> {}]
    /\ tx = [p \in Workers |-> EmptyTx]
    /\ loc = [p \in Workers |-> EmptyLoc]
    /\ namedLock = [u \in UIDs |-> 0]
    /\ trig = [t \in Triggers |-> NoTrig]
    /\ requested = [r \in ResourceIDs |-> {}]
    /\ raced = [r \in ResourceIDs |-> FALSE]
    /\ migrated = NoMigration
    /\ drain = NoDrain
    /\ inside = {}
    /\ removing = {}
    /\ cascade = {}

\* ------------------------------------------------------------- enqueue
\* txn.enqueue(cls, notBefore=..., pause=..., icalendarUID=..., ...) run and
\* committed by a caller's own transaction: ScheduleWorkMixin.create inserts
\* the SCHEDULE_WORK row, then the kind's row; the job primitive inserts the
\* JOB row.  cls._enqueued() follows.
\* Mutant of newJob: every job is created paused.
newJobPaused(notBefore, pause) == [notBefore |-> notBefore, failed |-> 0, pause |-> 1]

\* The JOB row of an enqueue with notBefore=... and pause=...
newJob(notBefore, pause) == [notBefore |-> notBefore, failed |-> 0, pause |-> pause]

Enqueue(kind, uid, home, res, att, count, notBefore, pause) ==
    /\ nextID <= MaxCalls
    /\ rec' = [rec EXCEPT ![nextID] =
                  [workType |-> kind, icalendarUID |-> uid, homeResourceID |-> home,
                   resourceID |-> res, attendee |-> att, attendeeCount |-> count]]
    /\ job' = [job EXCEPT ![nextID] = newJob(notBefore, pause)]
    /\ SW' = SW \cup {nextID}
    /\ IT' = IT \cup {nextID}
    /\ JOB' = JOB \cup {nextID}
    /\ nextID' = nextID + 1
    /\ queued' = queued + 1

\* The enqueueing class methods, called by a protocol-layer mutation.
\* ScheduleOrganizerWork.schedule: resource is None for action "create".
scheduleOrganizer(r, hasResource) ==
    /\ Enqueue(KOrganizer, UidOf(r), HomeOf(r), IF hasResource THEN r ELSE None,
               "none", Cardinality(Attendees), RequestDelaySeconds, 0)
    /\ UNCHANGED <<sra, nextRow, caldata, resources, workerVars, envVars>>

\* ScheduleOrganizerSendWork.schedule
scheduleSend(r, hasResource, att, stagger) ==
    /\ Enqueue(KSend, UidOf(r), HomeOf(r), IF hasResource THEN r ELSE None,
               att, 0, RequestDelaySeconds + stagger, 0)
    /\ UNCHANGED <<sra, nextRow, caldata, resources, workerVars, envVars>>

\* ScheduleReplyWork.reply
reply(r, hasResource) ==
    /\ Enqueue(KReply, UidOf(r), HomeOf(r), IF hasResource THEN r ELSE None,
               "none", 0, ReplyDelaySeconds, 0)
    /\ UNCHANGED <<sra, nextRow, caldata, resources, workerVars, envVars>>

\* ScheduleAutoReplyWork.autoReply
autoReply(r) ==
    /\ Enqueue(KAutoReply, UidOf(r), HomeOf(r), r, "none", 0, AutoReplyDelaySeconds, 0)
    /\ UNCHANGED <<sra, nextRow, caldata, resources, workerVars, envVars>>

\* ---------------------------------------------------- refreshAttendees
\* The attendees of the committed pending rows of resource r.
PendingOf(r) == {row.att : row \in {x \in sra : x.res = r}}

\* Mutant of attendeesToRefresh: every requested attendee is inserted.
attendeesToRefreshAll(attendees, pendingAttendees) == attendees

\* attendeesToRefresh = set(attendees) - set(pendingAttendees)
attendeesToRefresh(attendees, pendingAttendees) == attendees \ pendingAttendees

\* The rows the loop of Insert statements adds for resource r, numbered from
\* nextRow in some order of the attendees.
RECURSIVE InsertRows(_, _, _)
InsertRows(r, atts, n) ==
    IF atts = {} THEN {}
    ELSE LET a == CHOOSE x \in atts : TRUE
         IN  {[row |-> n, res |-> r, att |-> a]} \cup InsertRows(r, atts \ {a}, n + 1)

\* "Always queue up new work - coalescing happens when work is executed":
\* whether refreshAttendees enqueues, having inserted the attendees new.
QueuesWorkIfNew(new) == new # {}
QueuesWork(new) == TRUE

\* refreshAttendees, first statement: the Select of the pending attendees.
refreshAttendeesSelect(t, r, attendees) ==
    /\ trig[t].pc = "idle"
    /\ nextID <= MaxCalls
    /\ trig' = [trig EXCEPT ![t] = [pc |-> "insert", res |-> r,
                                    attendees |-> attendees, pending |-> PendingOf(r)]]
    /\ raced' = [raced EXCEPT ![r] =
                    @ \/ \E o \in Triggers : trig[o].pc = "insert" /\ trig[o].res = r]
    /\ UNCHANGED <<dbVars, workerVars, requested, migrated, cascade, drain, queued, inside, removing>>

\* refreshAttendees, the rest: the Inserts, the enqueue and the caller's
\* commit, which makes the rows and the work item visible together.
refreshAttendeesInsert(t) ==
    /\ trig[t].pc = "insert"
    /\ LET r == trig[t].res
           new == attendeesToRefresh(trig[t].attendees, trig[t].pending)
       IN  /\ IF QueuesWork(new)
              THEN Enqueue(KRefresh, UidOf(r), HomeOf(r), r, "none",
                           Cardinality(trig[t].attendees),
                           AttendeeRefreshBatchDelaySeconds, 0)
              ELSE UNCHANGED <<rec, job, SW, IT, JOB, nextID, queued>>
           /\ sra' = sra \cup InsertRows(r, new, nextRow)
           /\ nextRow' = nextRow + Cardinality(new)
           /\ requested' = [requested EXCEPT ![r] = @ \cup trig[t].attendees]
    /\ trig' = [trig EXCEPT ![t] = NoTrig]
    /\ UNCHANGED <<caldata, resources, workerVars, raced, migrated, cascade, drain, inside, removing>>

\* ------------------------------------------------------- the clock
Tick ==
    /\ \E i \in WorkIDs : job[i].notBefore > 0
    /\ job' = [i \in WorkIDs |-> [job[i] EXCEPT !.notBefore = Max(0, @ - 1)]]
    /\ UNCHANGED <<rec, SW, IT, JOB, nextID, sra, nextRow, caldata, resources,
                   workerVars, envVars, queued>>

\* ------------------------------------------------- the job primitive
\* A worker takes a job that is not paused and whose notBefore has elapsed;
\* ScheduleWorkMixin.loadForJob finds its work item.
PickJob(p, j) ==
    /\ pc[p] = "idle"
    /\ j \in JOB /\ j \in SW /\ j \in IT
    /\ job[j].pause = 0
    /\ job[j].notBefore = 0
    /\ \A q \in Workers : cur[q] # j
    /\ pc' = [pc EXCEPT ![p] = "runlock"]
    /\ cur' = [cur EXCEPT ![p] = j]
    /\ loc' = [loc EXCEPT ![p] = EmptyLoc]
    /\ UNCHANGED <<dbVars, locks, tx, namedLock, envVars, queued>>

\* Mutant of OrphanDeleted: the base row is left.
OrphanDeletedNone(j) == {}

\* "yield baseItem.delete()" for a base row whose work item row is gone.
OrphanDeleted(j) == {j}

\* loadForJob on a job whose SCHEDULE_WORK row has lost its work item row:
\* the base row is deleted, no work item is returned and the job ends.
loadForJobOrphan(p, j) ==
    /\ pc[p] = "idle"
    /\ j \in JOB /\ j \in SW /\ j \notin IT
    /\ job[j].pause = 0
    /\ job[j].notBefore = 0
    /\ \A q \in Workers : cur[q] # j /\ j \notin locks[q]
    /\ SW' = SW \ OrphanDeleted(j)
    /\ JOB' = JOB \ {j}
    /\ UNCHANGED <<rec, job, IT, nextID, sra, nextRow, caldata, resources,
                   workerVars, envVars, queued>>

\* ------------------------------------------------------------- runlock
\* Mutant of GroupRows: the lock is taken on the item's own base row only.
GroupRowsOwnRow(self) == {i \in SW : i = self}

\* The rows of "ScheduleWork.icalendarUID == self.icalendarUID".
GroupRows(self) == {i \in SW : rec[i].icalendarUID = rec[self].icalendarUID}

\* Record.trylock: SELECT ... FOR UPDATE NOWAIT over rows; it fails when a row
\* is locked by another transaction.
trylock(p, rows) == \A q \in Workers \ {p} : rows \cap locks[q] = {}

\* runlock followed, when it returned True, by beforeWork, which deletes the
\* work item (ScheduleWorkMixin.delete: the base row, the item row by cascade).
\* When it returned False the job is left to be run later.
\* self.trylock(): the Select For Update NoWait of the item's row of its
\* kind table, which fails when another transaction holds a lock on it.
trylockItem(p, self) ==
    /\ self \notin cascade
    /\ \A q \in Workers \ {p} : self \notin tx[q].delItems

runlock(p) ==
    /\ pc[p] = "runlock"
    /\ LET self == cur[p]
           locked == trylock(p, GroupRows(self))
       IN  IF locked
           THEN /\ locks' = [locks EXCEPT ![p] = GroupRows(self)]
                /\ loc' = [loc EXCEPT ![p].ownLock = trylockItem(p, self)]
                /\ tx' = [tx EXCEPT ![p] = [EmptyTx EXCEPT !.del = {self}]]
                \* returnValue(locked)
                /\ pc' = [pc EXCEPT ![p] = "doWork"]
                /\ cur' = cur
           ELSE /\ pc' = [pc EXCEPT ![p] = "idle"]
                /\ cur' = [cur EXCEPT ![p] = 0]
                /\ UNCHANGED <<locks, tx, loc>>
    /\ UNCHANGED <<dbVars, namedLock, envVars, queued>>

\* ------------------------------------------------- response and retry
\* A request status "N.M;free text" is the pair of its two parts.
ReqStatus(code) == <<code, "text">>
\* Mutant of statusCode: the part after the ';'.
statusCodeText(status) == status[2]

\* status.split(";")[0]
statusCode(status) == status[1]

RECURSIVE Flatten(_)
Flatten(ss) == IF ss = <<>> THEN <<>> ELSE Head(ss) \o Flatten(Tail(ss))

\* extractSchedulingResponse: queuedResponses is a list of responses, each a
\* list of items [recipient, reqstatus]; the result is the list of
\* (recipient, statusCode) pairs and all_delivered.
extractSchedulingResponse(queuedResponses) ==
    LET items == Flatten(queuedResponses)
        results == [i \in 1..Len(items) |->
                       <<items[i].recipient, statusCode(items[i].reqstatus)>>]
    IN  [results |-> results,
         all_delivered |-> \A i \in 1..Len(results) :
                               results[i][2] = MESSAGE_DELIVERED_CODE]

\* Mutants of RetriesExhausted: the comparison is off by one, either way, or
\* never true.
RetriesExhaustedEarly(failed) == failed + 1 >= MaxTemporaryFailures
RetriesExhaustedLate(failed) == failed > MaxTemporaryFailures
RetriesExhaustedNever(failed) == FALSE

\* The comparison of the failure count with the configured maximum.
RetriesExhausted(failed) == failed >= MaxTemporaryFailures

\* Mutants of AllPending: the delivered results are left out of the test;
\* one pending result is enough.
AllNonDeliveredPending(results) ==
    \A i \in 1..Len(results) :
        results[i][2] # MESSAGE_DELIVERED_CODE => results[i][2] = MESSAGE_PENDING_CODE
AnyPending(results) ==
    \E i \in 1..Len(results) : results[i][2] = MESSAGE_PENDING_CODE

\* all([result[1] == MESSAGE_PENDING_CODE for result in results])
AllPending(results) == \A i \in 1..Len(results) : results[i][2] = MESSAGE_PENDING_CODE

\* checkTemporaryFailure: raise tells whether JobTemporaryError is raised,
\* results is the list as the method leaves it.
checkTemporaryFailure(results, failed) ==
    IF AllPending(results)
    THEN IF RetriesExhausted(failed)
         THEN [raise |-> FALSE,
               results |-> [i \in 1..Len(results) |->
                               <<results[i][1], SERVICE_UNAVAILABLE_CODE>>]]
         ELSE [raise |-> TRUE, results |-> results]
    ELSE [raise |-> FALSE, results |-> results]

\* calendar.getAllAttendeeProperties() if is_organizer else
\* calendar.getOrganizerProperties()
PropsFor(is_organizer) ==
    {q \in Props : q[1] = IF is_organizer THEN "ATTENDEE" ELSE "ORGANIZER"}

\* handleSchedulingResponse: the calendar after the loop over the response.
RECURSIVE setScheduleStatus(_, _, _)
setScheduleStatus(response, calendar, is_organizer) ==
    IF response = <<>> THEN calendar
    ELSE LET r == Head(response)
             next == IF r[2] # MESSAGE_DELIVERED_CODE
                     THEN [q \in Props |->
                              IF q \in PropsFor(is_organizer) /\ q[2] = r[1]
                              THEN r[2] ELSE calendar[q]]
                     ELSE calendar
         IN  setScheduleStatus(Tail(response), next, is_organizer)

\* Mutant of handleSchedulingResponse: changed is set for a non-delivered
\* result whether or not a property matches.
handleSchedulingResponseAny(response, is_organizer) ==
    \E i \in 1..Len(response) : response[i][2] # MESSAGE_DELIVERED_CODE

\* handleSchedulingResponse: the value it returns.
handleSchedulingResponse(response, is_organizer) ==
    \E i \in 1..Len(response) :
        /\ response[i][2] # MESSAGE_DELIVERED_CODE
        /\ \E q \in PropsFor(is_organizer) : q[2] = response[i][1]

\* Mutant of processResponses: the responses are examined whether or not
\* there is a resource.
processResponsesUnguarded(resource, queuedResponses, failed, is_organizer) ==
    LET ext == extractSchedulingResponse(queuedResponses)
        chk == checkTemporaryFailure(ext.results, failed)
    IN  IF ext.all_delivered
        THEN [raise |-> FALSE, responses |-> ext.results, write |-> {}]
        ELSE [raise |-> chk.raise, responses |-> chk.results, write |-> {}]

\* What the lines after the scheduling attempt of ScheduleOrganizerSendWork
\* and ScheduleReplyWork do with the responses: raise, or the calendar data
\* to write to the resource (none when nothing is written).
processResponses(resource, queuedResponses, failed, is_organizer) ==
    LET ext == extractSchedulingResponse(queuedResponses)
        chk == checkTemporaryFailure(ext.results, failed)
    IN  IF resource = None \/ ext.all_delivered
        THEN [raise |-> FALSE, responses |-> ext.results, write |-> {}]
        ELSE IF chk.raise
        THEN [raise |-> TRUE, responses |-> chk.results, write |-> {}]
        ELSE [raise |-> FALSE, responses |-> chk.results,
              write |-> IF handleSchedulingResponse(chk.results, is_organizer)
                        THEN {<<resource, setScheduleStatus(chk.results,
                                              caldata[resource], is_organizer)>>}
                        ELSE {}]

\* The delivery responses the scheduling collaborator may hand back.
Codes == {MESSAGE_PENDING_CODE, MESSAGE_DELIVERED_CODE, NO_USER_SUPPORT_CODE}
ResponseItems(recipients) ==
    [recipient : recipients, reqstatus : {ReqStatus(c) : c \in Codes}]
QueuedResponses(recipients) ==
    {<< <<i>> >> : i \in ResponseItems(recipients)}
      \cup {<< <<i>>, <<j>> >> : i \in ResponseItems(recipients),
                                 j \in ResponseItems(recipients)}
SendResponses == QueuedResponses({"A", "B"})
ReplyResponses == {<< <<i>> >> : i \in ResponseItems({Organizer, Stranger})}

\* --------------------------------------------------------------- doWork
\* _dequeued, after "_queued -= 1" left the counter at n: whether _post is
\* registered as a post-commit hook of the transaction.
postCommit(n) == n = 0 /\ drain.callback

\* The end of doWork, the statements before it having left n items in
\* flight: self._dequeued() as the last statement, or an exception of a
\* collaborator before it, logged and raised again by the except clauses.
Returned(l, raises, n) ==
    [l EXCEPT !.dequeued = IF raises THEN 0 ELSE 1,
              !.postCommit = ~raises /\ postCommit(n - 1),
              !.raised = IF raises THEN "Exception" ELSE "none",
              !.delay = IF raises THEN failureRescheduleInterval ELSE 0]
InFlight(raises, n) == IF raises THEN n ELSE n - 1
\* Mutant of ReturnedTo: the except clauses log the exception and go on.
ReturnedToSwallowed(raises) == "afterWork"
ReturnedTo(raises) == IF raises THEN "raised" ELSE "afterWork"

\* "if resource is not None: <call of the scheduler> else: log.debug(skipping)"
\* of _doDelayedRefresh and _sendAttendeeAutoReply: the calls made.
SentAlways(resource, call) == {call}
Sent(resource, call) == IF resource # None THEN {call} ELSE {}

\* NamedLock.acquire(self.transaction, "ImplicitUIDLock:<md5 of uid>") blocks
\* until no other transaction holds the lock.
\* Mutant of CanAcquire: the lock is taken whoever holds it.
CanAcquireAlways(p, uid) == TRUE

CanAcquire(p, uid) == namedLock[uid] \in {0, p}

\* A synchronous, non-queue mutator of UID u (a request that stores or
\* removes the calendar object): it takes the same named lock in its own
\* transaction, is in the scheduling collaborator until it commits, and
\* its commit, which may remove the object, releases the lock.
Mutator == 3

mutatorEnter(u) ==
    /\ u \notin inside
    /\ ResourceOfUid(u) \in resources
    /\ CanAcquire(Mutator, u)
    /\ namedLock' = [namedLock EXCEPT ![u] = Mutator]
    /\ inside' = inside \cup {u}
    /\ UNCHANGED <<dbVars, pc, cur, locks, tx, loc, queued>>
    /\ UNCHANGED <<trig, requested, raced, migrated, cascade, drain, removing>>

mutatorCommit(u) ==
    /\ u \in inside
    /\ inside' = inside \ {u}
    /\ namedLock' = [namedLock EXCEPT ![u] = IF @ = Mutator THEN 0 ELSE @]
    /\ \E removes \in BOOLEAN :
           resources' = IF removes THEN resources \ {ResourceOfUid(u)} ELSE resources
    /\ UNCHANGED <<rec, job, SW, IT, JOB, nextID, sra, nextRow, caldata>>
    /\ UNCHANGED <<pc, cur, locks, tx, loc, queued>>
    /\ UNCHANGED <<trig, requested, raced, migrated, cascade, drain, removing>>

\* The rows of the kind tables deleted by cascade with resource r.
CascadeRows(r) == {i \in IT : rec[i].resourceID = r}

\* The workers whose transactions hold the lock of one of the rows: the own
\* row taken by runlock, or a row deleted and not yet committed.
RowHolders(rows) ==
    {q \in Workers : \/ rows \cap tx[q].delItems # {}
                     \/ loc[q].ownLock /\ cur[q] \in rows}

\* The mutator, in the collaborator for u with the lock held, issues the
\* deletion of the calendar object of u.
mutatorRemove(u) ==
    /\ u \in inside
    /\ namedLock[u] = Mutator
    /\ ResourceOfUid(u) \in resources \ removing
    /\ removing' = removing \cup {ResourceOfUid(u)}
    /\ UNCHANGED <<dbVars, workerVars, queued>>
    /\ UNCHANGED <<trig, requested, raced, migrated, cascade, drain, inside>>

\* The deletion goes through once no other transaction holds a lock of a row
\* it deletes by cascade; the mutator then commits, which releases its locks.
mutatorRemoved(u) ==
    /\ u \in inside
    /\ ResourceOfUid(u) \in removing
    /\ RowHolders(CascadeRows(ResourceOfUid(u))) = {}
    /\ IT' = IT \ CascadeRows(ResourceOfUid(u))
    /\ resources' = resources \ {ResourceOfUid(u)}
    /\ removing' = removing \ {ResourceOfUid(u)}
    /\ inside' = inside \ {u}
    /\ namedLock' = [namedLock EXCEPT ![u] = IF @ = Mutator THEN 0 ELSE @]
    /\ UNCHANGED <<rec, job, SW, JOB, nextID, sra, nextRow, caldata>>
    /\ UNCHANGED <<pc, cur, locks, tx, loc, queued>>
    /\ UNCHANGED <<trig, requested, raced, migrated, cascade, drain>>

\* home.objectResourceWithID(resourceID): None when there is no such resource.
objectResourceWithID(resourceID) ==
    IF resourceID \in resources THEN resourceID ELSE None

\* ScheduleOrganizerWork.doWork.  queuedOrganizerProcessing, the scheduling
\* collaborator, schedules n ScheduleOrganizerSendWork items in the
\* transaction of the work item.
doWorkOrganizerOutcome(p, n, att, raises) ==
    /\ pc[p] = "doWork"
    /\ rec[cur[p]].workType = KOrganizer
    /\ CanAcquire(p, rec[cur[p]].icalendarUID)
    /\ n = 1 => nextID <= MaxWork
    /\ LET self == rec[cur[p]]
       IN  /\ namedLock' = [namedLock EXCEPT ![self.icalendarUID] = p]
           /\ IF n = 1
              THEN /\ rec' = [rec EXCEPT ![nextID] =
                                 [workType |-> KSend,
                                  icalendarUID |-> self.icalendarUID,
                                  homeResourceID |-> self.homeResourceID,
                                  resourceID |-> objectResourceWithID(self.resourceID),
                                  attendee |-> att, attendeeCount |-> 0]]
                   /\ job' = [job EXCEPT ![nextID] = newJob(RequestDelaySeconds, 0)]
                   /\ nextID' = nextID + 1
                   /\ tx' = [tx EXCEPT ![p].newWork = @ \cup {nextID}]
              ELSE UNCHANGED <<rec, job, nextID, tx>>
           \* n times _enqueued() by schedule, then self._dequeued()
           /\ queued' = InFlight(raises, queued + n)
           /\ loc' = [loc EXCEPT ![p] =
                         [Returned(@, raises, queued + n) EXCEPT
                             !.sent = {"queuedOrganizerProcessing"}]]
    /\ pc' = [pc EXCEPT ![p] = ReturnedTo(raises)]
    /\ UNCHANGED <<SW, IT, JOB, sra, nextRow, caldata, resources, cur, locks, envVars>>

doWorkOrganizer(p, n, att) == doWorkOrganizerOutcome(p, n, att, FALSE)
doWorkOrganizerRaises(p, n, att) == doWorkOrganizerOutcome(p, n, att, TRUE)

\* The common end of ScheduleOrganizerSendWork.doWork and
\* ScheduleReplyWork.doWork once the scheduling attempt is made.
finishWithResponses(p, resource, queuedResponses, is_organizer, call, raises) ==
    LET out == processResponses(resource, queuedResponses,
                                job[cur[p]].failed, is_organizer)
    IN  /\ namedLock' = [namedLock EXCEPT ![rec[cur[p]].icalendarUID] = p]
        /\ IF out.raise
           THEN /\ pc' = [pc EXCEPT ![p] = "raised"]
                /\ loc' = [loc EXCEPT ![p].raised = "JobTemporaryError",
                                      ![p].delay = TemporaryFailureDelay,
                                      ![p].queuedResponses = queuedResponses,
                                      ![p].responses = out.responses,
                                      ![p].resource = resource,
                                      ![p].sent = {call}]
                /\ UNCHANGED <<tx, queued>>
           ELSE /\ pc' = [pc EXCEPT ![p] = ReturnedTo(raises)]
                /\ tx' = [tx EXCEPT ![p].status = out.write]
                /\ loc' = [loc EXCEPT ![p] =
                              [Returned(@, raises, queued) EXCEPT
                                  !.queuedResponses = queuedResponses,
                                  !.responses = out.responses,
                                  !.resource = resource,
                                  !.sent = {call}]]
                /\ queued' = InFlight(raises, queued)
        /\ UNCHANGED <<dbVars, cur, locks, envVars>>

\* ScheduleOrganizerSendWork.doWork.  queuedOrganizerSending leaves its
\* resource in scheduler.resource (None when it found none) and the delivery
\* responses in scheduler.queuedResponses.
doWorkSendOutcome(p, schedulerResource, queuedResponses, raises) ==
    /\ pc[p] = "doWork"
    /\ rec[cur[p]].workType = KSend
    /\ CanAcquire(p, rec[cur[p]].icalendarUID)
    /\ schedulerResource \in
           {None} \cup ({ResourceOfUid(rec[cur[p]].icalendarUID)} \cap resources)
    /\ finishWithResponses(p, schedulerResource, queuedResponses, TRUE,
                           "queuedOrganizerSending", raises)

doWorkSend(p, schedulerResource, queuedResponses) ==
    doWorkSendOutcome(p, schedulerResource, queuedResponses, FALSE)
doWorkSendRaises(p, schedulerResource, queuedResponses) ==
    doWorkSendOutcome(p, schedulerResource, queuedResponses, TRUE)

\* ScheduleReplyWork.doWork
doWorkReplyOutcome(p, response, raises) ==
    /\ pc[p] = "doWork"
    /\ rec[cur[p]].workType = KReply
    /\ CanAcquire(p, rec[cur[p]].icalendarUID)
    /\ finishWithResponses(p, objectResourceWithID(rec[cur[p]].resourceID),
                           response, FALSE, "sendToOrganizer", raises)

doWorkReply(p, response) == doWorkReplyOutcome(p, response, FALSE)
doWorkReplyRaises(p, response) == doWorkReplyOutcome(p, response, TRUE)

\* ScheduleAutoReplyWork.doWork: the Delete of the rows of the kind's table
\* with the resource id of the item, then _sendAttendeeAutoReply.
doWorkAutoReplyOutcome(p, raises) ==
    /\ pc[p] = "doWork"
    /\ rec[cur[p]].workType = KAutoReply
    /\ LET self == rec[cur[p]]
           resource == objectResourceWithID(self.resourceID)
       IN  /\ resource # None => CanAcquire(p, UidOf(resource))
           /\ tx' = [tx EXCEPT ![p].delItems =
                        {i \in IT : /\ rec[i].workType = KAutoReply
                                    /\ rec[i].resourceID = self.resourceID}]
           /\ namedLock' = IF resource # None
                           THEN [namedLock EXCEPT ![UidOf(resource)] = p]
                           ELSE namedLock
           /\ loc' = [loc EXCEPT ![p] =
                         [Returned(@, raises, queued) EXCEPT
                             !.resource = resource,
                             !.sent = Sent(resource, "sendAttendeeReply")]]
    /\ queued' = InFlight(raises, queued)
    /\ pc' = [pc EXCEPT ![p] = ReturnedTo(raises)]
    /\ UNCHANGED <<dbVars, cur, locks, envVars>>

doWorkAutoReply(p) == doWorkAutoReplyOutcome(p, FALSE)
doWorkAutoReplyRaises(p) == doWorkAutoReplyOutcome(p, TRUE)

\* ScheduleRefreshWork.doWork, first statement: the Select of the rows of
\* SCHEDULE_REFRESH_WORK with the home and resource of the item, seen by the
\* transaction, which has deleted the item's own row.
\* Mutant of OtherRefreshWork: only the rows of later work items.
OtherRefreshWorkLater(p) ==
    {i \in IT \ (tx[p].del \cup tx[p].delItems) :
        /\ rec[i].workType = KRefresh
        /\ rec[i].homeResourceID = rec[cur[p]].homeResourceID
        /\ rec[i].resourceID = rec[cur[p]].resourceID
        /\ i > cur[p]}

OtherRefreshWork(p) ==
    {i \in IT \ (tx[p].del \cup tx[p].delItems) :
        /\ rec[i].workType = KRefresh
        /\ rec[i].homeResourceID = rec[cur[p]].homeResourceID
        /\ rec[i].resourceID = rec[cur[p]].resourceID}

\* Mutant of Ignored: one other row is not enough.
IgnoredWhenSeveral(rows) == Cardinality(rows) > 1

\* "if rows:" the item is ignored.
Ignored(rows) == rows # {}

doWorkRefresh(p) ==
    /\ pc[p] = "doWork"
    /\ rec[cur[p]].workType = KRefresh
    /\ loc' = [loc EXCEPT ![p].rows = OtherRefreshWork(p)]
    /\ pc' = [pc EXCEPT ![p] =
                 IF Ignored(OtherRefreshWork(p)) THEN "afterWork" ELSE "select"]
    /\ UNCHANGED <<dbVars, cur, locks, tx, namedLock, envVars, queued>>

\* attendeesToProcess = pendingAttendees[:AttendeeRefreshBatch], where
\* pendingAttendees = list(set(...)) is in no particular order: any
\* AttendeeRefreshBatch of them, or all when there are fewer.
\* Mutant of Batches: the whole list is taken.
BatchesUnbounded(pendingAttendees) == {pendingAttendees}

Batches(pendingAttendees) ==
    {b \in SUBSET pendingAttendees :
        Cardinality(b) = Min(AttendeeRefreshBatch, Cardinality(pendingAttendees))}

\* Second statement: the Select of the pending attendees of the resource;
\* "Nothing left so done" when there is none.
doWorkRefreshSelect(p, batch) ==
    /\ pc[p] = "select"
    /\ LET r == rec[cur[p]].resourceID
           rows == {x \in sra : x.res = r}
           pendingAttendees == {x.att : x \in rows}
       IN  /\ batch \in Batches(pendingAttendees)
           /\ loc' = [loc EXCEPT ![p].pendingRows = rows,
                                 ![p].pendingAttendees = pendingAttendees,
                                 ![p].attendeesToProcess = batch]
           /\ pc' = [pc EXCEPT ![p] =
                        IF pendingAttendees = {} THEN "afterWork" ELSE "delete"]
    /\ UNCHANGED <<dbVars, cur, locks, tx, namedLock, envVars, queued>>

\* Mutants of DeletedRows: every row of the resource; no row.
DeletedRowsOfResource(r, batch, readRows) == {x \in sra : x.res = r}
DeletedRowsNone(r, batch, readRows) == {}

\* The rows "Delete(From=sra, Where=RESOURCE_ID == r And ATTENDEE In batch)"
\* removes: those that match when the statement runs.
DeletedRows(r, batch, readRows) == {x \in sra : x.res = r /\ x.att \in batch}

\* pendingAttendees[AttendeeRefreshBatch:], what is left after the batch.
Remaining(pendingAttendees, batch) == pendingAttendees \ batch

\* Mutants of Reschedule: no follow-up item; always a follow-up item.
RescheduleNever(remaining) == FALSE
RescheduleAlways(remaining) == TRUE

\* "if len(pendingAttendees) != 0:" a follow-up item is enqueued.
Reschedule(remaining) == remaining # {}

\* The rest of doWork: the Delete of the batch, the follow-up work item when
\* attendees remain, _doDelayedRefresh and _dequeued.
doWorkRefreshDeleteOutcome(p, raises) ==
    /\ pc[p] = "delete"
    /\ LET self == rec[cur[p]]
           r == self.resourceID
           batch == loc[p].attendeesToProcess
           remaining == Remaining(loc[p].pendingAttendees, batch)
           resource == objectResourceWithID(r)
           again == Reschedule(remaining)
       IN  /\ again => nextID <= MaxWork
           /\ resource # None => CanAcquire(p, UidOf(resource))
           /\ IF again
              THEN /\ rec' = [rec EXCEPT ![nextID] =
                                 [workType |-> KRefresh,
                                  icalendarUID |-> self.icalendarUID,
                                  homeResourceID |-> self.homeResourceID,
                                  resourceID |-> r, attendee |-> "none",
                                  attendeeCount |-> Cardinality(remaining)]]
                   /\ job' = [job EXCEPT ![nextID] =
                                 newJob(AttendeeRefreshBatchIntervalSeconds, 0)]
                   /\ nextID' = nextID + 1
              ELSE UNCHANGED <<rec, job, nextID>>
           /\ tx' = [tx EXCEPT ![p].sraDel =
                                   {x.row : x \in DeletedRows(r, batch, loc[p].pendingRows)},
                               ![p].newWork = IF again THEN {nextID} ELSE {}]
           /\ namedLock' = IF resource # None
                           THEN [namedLock EXCEPT ![UidOf(resource)] = p]
                           ELSE namedLock
           /\ loc' = [loc EXCEPT ![p] =
                         [Returned(@, raises, queued + (IF again THEN 1 ELSE 0))
                          EXCEPT !.pendingAttendees = remaining,
                                 !.resource = resource,
                                 !.sent = Sent(resource,
                                               "refreshAllAttendeesExceptSome")]]
           \* _enqueued() for the follow-up, then _dequeued()
           /\ queued' = InFlight(raises, queued + (IF again THEN 1 ELSE 0))
    /\ pc' = [pc EXCEPT ![p] = ReturnedTo(raises)]
    /\ UNCHANGED <<SW, IT, JOB, sra, nextRow, caldata, resources, cur, locks, envVars>>

doWorkRefreshDelete(p) == doWorkRefreshDeleteOutcome(p, FALSE)
doWorkRefreshDeleteRaises(p) == doWorkRefreshDeleteOutcome(p, TRUE)

\* ------------------------------------------------------------ afterWork
\* The rows of SCHEDULE_WORK the transaction of p sees.
VisibleWork(p) == (SW \ tx[p].del) \cup tx[p].newWork

\* Mutant of NextWork: the query is restricted to the kind of the item.
NextWorkOfKind(p) ==
    LET all == {i \in VisibleWork(p) :
                   /\ rec[i].icalendarUID = rec[cur[p]].icalendarUID
                   /\ rec[i].workType = rec[cur[p]].workType
                   /\ i # cur[p]}
    IN  IF all = {} THEN {} ELSE {CHOOSE i \in all : \A k \in all : i <= k}

\* The query of afterWork: the rows with the UID of the item and another
\* work id, ordered by work id, limit 1.
NextWork(p) ==
    LET all == {i \in VisibleWork(p) :
                   /\ rec[i].icalendarUID = rec[cur[p]].icalendarUID
                   /\ i # cur[p]}
    IN  IF all = {} THEN {} ELSE {CHOOSE i \in all : \A k \in all : i <= k}

\* Mutant of Promoted: the kind test names ScheduleOrganizerWork.
PromotedWrongKind(p) ==
    IF rec[cur[p]].workType = KOrganizer
    THEN {i \in NextWork(p) : rec[i].workType = rec[cur[p]].workType}
    ELSE {}

\* Mutant of Promoted: neither kind test is made.
PromotedEveryKind(p) == NextWork(p)

\* The jobs afterWork updates with notBefore = utcnow().
Promoted(p) ==
    IF rec[cur[p]].workType = KSend
    THEN {i \in NextWork(p) : rec[i].workType = rec[cur[p]].workType}
    ELSE {}

\* Mutant of jobUpdateNow: the update also clears the pause flag.
jobUpdateNowUnpaused(row) == [row EXCEPT !.notBefore = 0, !.pause = 0]

\* job.update(notBefore=datetime.datetime.utcnow())
jobUpdateNow(row) == [row EXCEPT !.notBefore = 0]

\* afterWork, then the end of JobItem.run (the job deletes itself) and the
\* commit of the transaction, which releases its locks.
\* ScheduleWorkMixin.delete: the rows of the kind tables that go, by cascade,
\* with the deleted rows of SCHEDULE_WORK.
CascadeNone(del) == {}
Cascade(del) == del

afterWork(p) ==
    /\ pc[p] = "afterWork"
    /\ LET t == tx[p]
           promoted == Promoted(p)
       IN  /\ SW' = (SW \ t.del) \cup t.newWork
           /\ IT' = (IT \ (Cascade(t.del) \cup t.delItems)) \cup t.newWork
           /\ JOB' = (JOB \ {cur[p]}) \cup t.newWork
           /\ sra' = {x \in sra : x.row \notin t.sraDel}
           /\ job' = [i \in WorkIDs |->
                         IF i \in promoted THEN jobUpdateNow(job[i])
                         ELSE job[i]]
           /\ caldata' = [r \in ResourceIDs |->
                             IF \E w \in t.status : w[1] = r
                             THEN (CHOOSE w \in t.status : w[1] = r)[2]
                             ELSE caldata[r]]
    /\ pc' = [pc EXCEPT ![p] = "idle"]
    /\ cur' = [cur EXCEPT ![p] = 0]
    /\ locks' = [locks EXCEPT ![p] = {}]
    /\ tx' = [tx EXCEPT ![p] = EmptyTx]
    /\ namedLock' = [u \in UIDs |-> IF namedLock[u] = p THEN 0 ELSE namedLock[u]]
    /\ loc' = [loc EXCEPT ![p] = EmptyLoc]
    \* the post-commit hook _post: the callback is called and forgotten
    /\ drain' = [callback |-> drain.callback /\ ~loc[p].postCommit,
                 fired |-> IF loc[p].postCommit /\ drain.callback
                           THEN drain.fired + 1 ELSE drain.fired,
                 error |-> drain.error \/ (loc[p].postCommit /\ ~drain.callback),
                 completed |-> drain.completed \cup {cur[p]},
                 armedAt |-> drain.armedAt]
    /\ UNCHANGED <<rec, nextID, nextRow, resources, trig, requested, raced,
                   migrated, cascade, queued, inside, removing>>

\* doWork raised: the transaction is aborted and the job primitive counts the
\* failure and reschedules the job after the delay of the error.
\* Mutant of PromotedOnFailure: afterWork is also called when doWork raised.
PromotedOnFailureAsSuccess(p) == Promoted(p)

\* The jobs updated with notBefore = utcnow() when doWork raised: afterWork
\* is called only when doWork returned, so there are none.
PromotedOnFailure(p) == {}

failedToRun(p) ==
    /\ pc[p] = "raised"
    /\ job' = [i \in WorkIDs |->
                  IF i = cur[p]
                  THEN [job[i] EXCEPT !.failed = @ + 1,
                                      !.notBefore = loc[p].delay]
                  ELSE IF i \in PromotedOnFailure(p)
                       THEN jobUpdateNow(job[i])
                       ELSE job[i]]
    /\ pc' = [pc EXCEPT ![p] = "idle"]
    /\ cur' = [cur EXCEPT ![p] = 0]
    /\ locks' = [locks EXCEPT ![p] = {}]
    /\ tx' = [tx EXCEPT ![p] = EmptyTx]
    /\ namedLock' = [u \in UIDs |-> IF namedLock[u] = p THEN 0 ELSE namedLock[u]]
    /\ loc' = [loc EXCEPT ![p] = EmptyLoc]
    /\ UNCHANGED <<rec, SW, IT, JOB, nextID, sra, nextRow, caldata, resources,
                   envVars, queued>>

\* refreshAttendees run from its Select to the caller's commit with no other
\* transaction in between.
refreshAttendees(r, attendees) ==
    /\ \A t \in Triggers : trig[t].pc = "idle"
    /\ LET new == attendeesToRefresh(attendees, PendingOf(r))
       IN  /\ IF QueuesWork(new)
              THEN Enqueue(KRefresh, UidOf(r), HomeOf(r), r, "none",
                           Cardinality(attendees),
                           AttendeeRefreshBatchDelaySeconds, 0)
              ELSE UNCHANGED <<rec, job, SW, IT, JOB, nextID, queued>>
           /\ sra' = sra \cup InsertRows(r, new, nextRow)
           /\ nextRow' = nextRow + Cardinality(new)
           /\ requested' = [requested EXCEPT ![r] = @ \cup attendees]
    /\ UNCHANGED <<caldata, resources, workerVars, trig, raced, migrated, cascade,
                   drain, inside, removing>>

\* -------------------------------------------------------------- migrate
\* Mutant of MigrateDropped: every item is dropped.
MigrateDroppedAlways(self, new_resource) == TRUE

\* Mutant of MigrateDropped: the test of the organizer kinds is inverted.
MigrateDroppedInverted(self, new_resource) ==
    IF self.workType \in {KOrganizer, KSend, KReply}
    THEN self.resourceID = None /\ new_resource = None
    ELSE new_resource = None

\* Mutant of MigrateDropped: every kind is dropped when no destination
\* resource is resolved.
MigrateDroppedUnmapped(self, new_resource) == new_resource = None

\* len(self._refreshAttendees): serializeWithAncillaryData lists the
\* attendee of every pending row of the resource of the item, duplicates
\* included.
Len_refreshAttendees(self) == Cardinality({x \in sra : x.res = self.resourceID})

\* The test before "returnValue(False)": the organizer kinds and the reply
\* are dropped when they had a resource id and have no new resource, the
\* refresh and the auto-reply when they have no new resource.
MigrateDropped(self, new_resource) ==
    IF self.workType \in {KOrganizer, KSend, KReply}
    THEN self.resourceID # None /\ new_resource = None
    ELSE new_resource = None

\* migrate of work item w, with mapIDsCallback(self.resourceID) returning
\* (new_home, new_resource): the new work is inserted paused by the
\* enqueueing class method of the kind.
migrate(w, new_home, new_resource) ==
    /\ w \in SW /\ w \in IT
    /\ LET self == rec[w]
       IN  IF MigrateDropped(self, new_resource)
           THEN /\ migrated' = [work |-> w, new_home |-> new_home,
                                new_resource |-> new_resource,
                                result |-> FALSE, created |-> 0]
                /\ UNCHANGED <<dbVars, requested, queued>>
           ELSE /\ migrated' = [work |-> w, new_home |-> new_home,
                                new_resource |-> new_resource,
                                result |-> TRUE, created |-> nextID]
                /\ CASE self.workType = KOrganizer ->
                          /\ Enqueue(KOrganizer, self.icalendarUID, new_home,
                                     new_resource, "none", self.attendeeCount,
                                     RequestDelaySeconds, 1)
                          /\ UNCHANGED <<sra, nextRow, requested>>
                     [] self.workType = KSend ->
                          /\ Enqueue(KSend, self.icalendarUID, new_home,
                                     new_resource, self.attendee, 0,
                                     RequestDelaySeconds + 0, 1)
                          /\ UNCHANGED <<sra, nextRow, requested>>
                     [] self.workType = KReply ->
                          /\ Enqueue(KReply, self.icalendarUID, new_home,
                                     new_resource, "none", 0, ReplyDelaySeconds, 1)
                          /\ UNCHANGED <<sra, nextRow, requested>>
                     [] self.workType = KRefresh ->
                          LET new == attendeesToRefresh(PendingOf(self.resourceID),
                                                        PendingOf(new_resource))
                          IN  /\ Enqueue(KRefresh, UidOf(new_resource),
                                         HomeOf(new_resource), new_resource, "none",
                                         Len_refreshAttendees(self),
                                         AttendeeRefreshBatchDelaySeconds, 1)
                              /\ sra' = sra \cup InsertRows(new_resource, new, nextRow)
                              /\ nextRow' = nextRow + Cardinality(new)
                              /\ requested' = [requested EXCEPT ![new_resource] =
                                                  @ \cup PendingOf(self.resourceID)]
                     [] self.workType = KAutoReply ->
                          /\ Enqueue(KAutoReply, UidOf(new_resource),
                                     HomeOf(new_resource), new_resource, "none", 0,
                                     AutoReplyDelaySeconds, 1)
                          /\ UNCHANGED <<sra, nextRow, requested>>
                /\ UNCHANGED <<caldata, resources>>
    /\ UNCHANGED <<workerVars, trig, raced, cascade, drain, inside, removing>>

\* The external step that ends a migration: the pause flag of a job is
\* cleared.
unpause(j) ==
    /\ j \in JOB
    /\ job[j].pause = 1
    /\ job' = [job EXCEPT ![j].pause = 0]
    /\ UNCHANGED <<rec, SW, IT, JOB, nextID, sra, nextRow, caldata, resources,
                   workerVars, envVars, queued>>

\* A calendar object resource is removed by a committed transaction of the
\* object store.
removeResource(r) ==
    /\ r \in resources
    /\ resources' = resources \ {r}
    /\ UNCHANGED <<rec, job, SW, IT, JOB, nextID, sra, nextRow, caldata,
                   workerVars, envVars, queued>>

\* A transaction of the object store deletes resource r: the rows of the
\* kind tables with that resource id are deleted by cascade, and stay locked
\* until the transaction commits; the rows of SCHEDULE_WORK and the jobs are
\* not touched (the case loadForJob cleans up after).
cascadeDelete(r) ==
    /\ cascade = {}
    /\ r \in resources
    /\ LET rows == {i \in IT : rec[i].resourceID = r}
       IN  /\ rows # {}
           /\ \A q \in Workers :
                  /\ rows \cap tx[q].delItems = {}
                  /\ loc[q].ownLock => cur[q] \notin rows
           /\ cascade' = rows
    /\ UNCHANGED <<dbVars, workerVars, trig, requested, raced, migrated, drain,
                   queued, inside, removing>>

cascadeCommit ==
    /\ cascade # {}
    /\ IT' = IT \ cascade
    /\ resources' = resources \ {rec[i].resourceID : i \in cascade}
    /\ cascade' = {}
    /\ UNCHANGED <<rec, job, SW, JOB, nextID, sra, nextRow, caldata, workerVars,
                   trig, requested, raced, migrated, drain, queued, inside, removing>>

\* ScheduleWorkMixin.allDone: the callback is armed and the counter reset.
allDone ==
    /\ ~drain.callback
    /\ drain.fired = 0
    /\ drain' = [drain EXCEPT !.callback = TRUE, !.armedAt = nextID]
    /\ queued' = 0
    /\ UNCHANGED <<dbVars, workerVars, trig, requested, raced, migrated, cascade, inside, removing>>

\* ------------------------------------------------------ specifications
\* Spec: the five kinds of work for two UIDs, run by two workers.  The
\* callers enqueue for UID U1 every kind and for U2 organizer sends; the
\* deliveries of a send either succeed or stay pending.
Staggers == {0, MaxStagger}
OneResponse(recipient, code) ==
    << << [recipient |-> recipient, reqstatus |-> ReqStatus(code)] >> >>

Caller ==
    \/ scheduleOrganizer(1, TRUE)
    \/ \E r \in ResourceIDs, g \in Staggers : scheduleSend(r, TRUE, "A", g)
    \/ reply(1, TRUE)
    \/ autoReply(1)
    \/ refreshAttendees(1, {"A"})

Worker(p) ==
    \/ \E j \in WorkIDs : PickJob(p, j)
    \/ \E j \in WorkIDs : loadForJobOrphan(p, j)
    \/ runlock(p)
    \/ \E n \in 0..1 : doWorkOrganizer(p, n, "A")
    \/ \E sr \in ResourceIDs :
           doWorkSend(p, sr, OneResponse("A", MESSAGE_DELIVERED_CODE))
    \/ doWorkReply(p, OneResponse(Organizer, MESSAGE_DELIVERED_CODE))
    \/ doWorkAutoReply(p)
    \/ doWorkRefresh(p)
    \/ \E b \in SUBSET Attendees : doWorkRefreshSelect(p, b)
    \/ doWorkRefreshDelete(p)
    \/ afterWork(p)

Next == Caller \/ Tick \/ \E p \in Workers : Worker(p)

Spec == Init /\ [][Next]_vars

\* SpecImplicit: every kind is enqueued for resource 1 and run by two
\* workers while a synchronous mutator stores or removes the resource.
CallerImplicit ==
    \/ scheduleOrganizer(1, TRUE)
    \/ scheduleSend(1, TRUE, "A", 0)
    \/ reply(1, TRUE)
    \/ autoReply(1)
    \/ refreshAttendees(1, {"A"})

MutatorStep == mutatorEnter(UidOf(1)) \/ mutatorCommit(UidOf(1))

WorkerImplicit(p) ==
    \/ \E j \in WorkIDs : PickJob(p, j)
    \/ runlock(p)
    \/ doWorkOrganizer(p, 0, "A")
    \/ \E sr \in {None, 1} :
           doWorkSend(p, sr, OneResponse("A", MESSAGE_DELIVERED_CODE))
    \/ doWorkReply(p, OneResponse(Organizer, MESSAGE_DELIVERED_CODE))
    \/ doWorkAutoReply(p)
    \/ doWorkRefresh(p)
    \/ \E b \in SUBSET Attendees : doWorkRefreshSelect(p, b)
    \/ doWorkRefreshDelete(p)
    \/ afterWork(p)

NextImplicit ==
    CallerImplicit \/ Tick \/ MutatorStep \/ \E p \in Workers : WorkerImplicit(p)

SpecImplicit == Init /\ [][NextImplicit]_vars

\* SpecRetry: one worker runs Organizer-Send and Attendee-Reply items of
\* one UID; the scheduling collaborator hands back any delivery responses
\* and any resource.
CallerRetry ==
    \/ scheduleSend(1, TRUE, "A", 0)
    \/ \E h \in BOOLEAN : reply(1, h)

WorkerRetry(p, sendResponses, replyResponses) ==
    \/ \E j \in WorkIDs : PickJob(p, j)
    \/ runlock(p)
    \/ \E sr \in {None, 1}, qr \in sendResponses : doWorkSend(p, sr, qr)
    \/ \E qr \in replyResponses : doWorkReply(p, qr)
    \/ afterWork(p)
    \/ failedToRun(p)

\* The responses of SpecRetry: one or two recipients, each pending or
\* delivered; a reply is answered for the organizer or for a stranger.
RetryItems(recipients) ==
    {i \in ResponseItems(recipients) :
        statusCode(i.reqstatus) \in {MESSAGE_PENDING_CODE, MESSAGE_DELIVERED_CODE}}
RetrySendResponses ==
    {<< <<i>> >> : i \in RetryItems({"A"})}
      \cup {<< <<i>>, <<j>> >> : i \in RetryItems({"A"}), j \in RetryItems({"B"})}
RetryReplyResponses == {<< <<i>> >> : i \in RetryItems({Organizer, Stranger})}

NextRetry ==
    CallerRetry \/ Tick \/ WorkerRetry(1, RetrySendResponses, RetryReplyResponses)

SpecRetry == Init /\ [][NextRetry]_vars

\* SpecStatus: as SpecRetry, with every delivery coded pending, delivered
\* or no-user-support, and a caller that waits for the queue to be empty.
CallerStatus == JOB = {} /\ CallerRetry

StatusSendResponses ==
    {<< <<i>> >> : i \in ResponseItems({"A"})}
      \cup {<< <<i>>, <<j>> >> : i \in ResponseItems({"A"}), j \in ResponseItems({"B"})}
StatusReplyResponses == {<< <<i>> >> : i \in ResponseItems({Organizer, Stranger})}

NextStatus ==
    CallerStatus \/ Tick \/ WorkerRetry(1, StatusSendResponses, StatusReplyResponses)

SpecStatus == Init /\ [][NextStatus]_vars

\* SpecCreate: Organizer-Coalesce and Organizer-Send items are enqueued
\* with or without a resource id (action "create"), one at a time, and run
\* by one worker; the collaborator finds the resource or not, and its
\* deliveries are delivered or pending.
CallerCreate ==
    /\ JOB = {}
    /\ \E h \in BOOLEAN : scheduleOrganizer(1, h) \/ scheduleSend(1, h, "A", 0)

WorkerCreate(p) ==
    \/ \E j \in WorkIDs : PickJob(p, j)
    \/ runlock(p)
    \/ doWorkOrganizer(p, 0, "A")
    \/ \E sr \in {None, 1}, qr \in RetrySendResponses : doWorkSend(p, sr, qr)
    \/ afterWork(p)
    \/ failedToRun(p)

NextCreate == CallerCreate \/ Tick \/ WorkerCreate(1)

SpecCreate == Init /\ [][NextCreate]_vars

\* SpecRetryLive: as SpecRetry, with every delivery staying pending; the job
\* primitive runs an eligible job in the end and time passes.
PendingSendResponses ==
    {qr \in RetrySendResponses : AllPending(extractSchedulingResponse(qr).results)}
PendingReplyResponses ==
    {qr \in RetryReplyResponses : AllPending(extractSchedulingResponse(qr).results)}

NextRetryLive ==
    CallerRetry \/ Tick \/ WorkerRetry(1, PendingSendResponses, PendingReplyResponses)

SpecRetryLive ==
    /\ Init /\ [][NextRetryLive]_vars
    /\ WF_vars(Tick)
    /\ WF_vars(\E j \in WorkIDs : PickJob(1, j))
    /\ WF_vars(runlock(1))
    /\ WF_vars(\E sr \in {None, 1}, qr \in PendingSendResponses : doWorkSend(1, sr, qr))
    /\ WF_vars(\E qr \in PendingReplyResponses : doWorkReply(1, qr))
    /\ WF_vars(afterWork(1))
    /\ WF_vars(failedToRun(1))

\* SpecRefresh: two callers trigger refreshes of resource 1, each inside
\* its own transaction, while two workers run the Refresh items.
TriggerSets == {{"A", "B"}, {"B", "C"}}

CallerRefresh ==
    \E t \in Triggers :
        \/ \E a \in TriggerSets : refreshAttendeesSelect(t, 1, a)
        \/ refreshAttendeesInsert(t)

WorkerRefresh(p) ==
    \/ \E j \in WorkIDs : PickJob(p, j)
    \/ runlock(p)
    \/ doWorkRefresh(p)
    \/ \E b \in SUBSET Attendees : doWorkRefreshSelect(p, b)
    \/ doWorkRefreshDelete(p)
    \/ afterWork(p)

NextRefresh == CallerRefresh \/ Tick \/ \E p \in Workers : WorkerRefresh(p)

SpecRefresh == Init /\ [][NextRefresh]_vars

\* SpecRefreshLive: as SpecRefresh with one worker; a caller inside
\* refreshAttendees goes on to its commit, time passes, and the job primitive
\* runs an eligible job and every step of the execution in the end.
NextRefreshLive == CallerRefresh \/ Tick \/ WorkerRefresh(1)

SpecRefreshLive ==
    /\ Init /\ [][NextRefreshLive]_vars
    /\ WF_vars(Tick)
    /\ \A t \in Triggers : WF_vars(refreshAttendeesInsert(t))
    /\ WF_vars(\E j \in WorkIDs : PickJob(1, j))
    /\ WF_vars(runlock(1))
    /\ WF_vars(doWorkRefresh(1))
    /\ WF_vars(\E b \in SUBSET Attendees : doWorkRefreshSelect(1, b))
    /\ WF_vars(doWorkRefreshDelete(1))
    /\ WF_vars(afterWork(1))

\* SpecMigrate: work of every kind is enqueued for resource 1, with or
\* without a resource id, and migrated; the callback maps the resource to
\* resource 2 or to nothing.
CallerMigrate ==
    \/ \E h \in BOOLEAN : scheduleOrganizer(1, h)
    \/ \E h \in BOOLEAN : scheduleSend(1, h, "A", 0)
    \/ \E h \in BOOLEAN : reply(1, h)
    \/ autoReply(1)
    \/ \E a \in TriggerSets : refreshAttendees(1, a)

NextMigrate ==
    \/ CallerMigrate
    \/ Tick
    \/ \E w \in WorkIDs, new_resource \in {None, 2} :
           migrate(w, HomeOf(2), new_resource)

SpecMigrate == Init /\ [][NextMigrate]_vars

\* SpecPause: organizer sends are enqueued for two UIDs, migrated to
\* resource 2 (the copy keeps the UID of the original), run by the workers
\* and chained; the migration is ended for a job by unpause.
NextPause ==
    \/ \E r \in ResourceIDs : scheduleSend(r, TRUE, "A", 0)
    \/ \E w \in WorkIDs : migrate(w, HomeOf(2), 2)
    \/ \E j \in WorkIDs : unpause(j)
    \/ Tick
    \/ \E p \in Workers :
          \/ \E j \in WorkIDs : PickJob(p, j)
          \/ runlock(p)
          \/ doWorkSend(p, ResourceOfUid(rec[cur[p]].icalendarUID),
                        OneResponse("A", MESSAGE_DELIVERED_CODE))
          \/ afterWork(p)

SpecPause == Init /\ [][NextPause]_vars

\* SpecOrigin: items of every kind are enqueued for resource 1, one at a
\* time, migrated to resource 2 or dropped, unpaused, and run by one worker,
\* whose executions enqueue sends and refresh follow-ups.
CallerOrigin ==
    /\ JOB = {}
    /\ \/ scheduleOrganizer(1, TRUE)
       \/ scheduleSend(1, TRUE, "A", 0)
       \/ reply(1, TRUE)
       \/ autoReply(1)
       \/ refreshAttendees(1, Attendees)

WorkerOrigin(p) ==
    \/ \E j \in WorkIDs : PickJob(p, j)
    \/ runlock(p)
    \/ \E n \in 0..1 : doWorkOrganizer(p, n, "A")
    \/ \E sr \in {None} \cup ResourceIDs :
           doWorkSend(p, sr, OneResponse("A", MESSAGE_DELIVERED_CODE))
    \/ doWorkReply(p, OneResponse(Organizer, MESSAGE_DELIVERED_CODE))
    \/ doWorkAutoReply(p)
    \/ doWorkRefresh(p)
    \/ \E b \in SUBSET Attendees : doWorkRefreshSelect(p, b)
    \/ doWorkRefreshDelete(p)
    \/ afterWork(p)

NextOrigin ==
    \/ CallerOrigin
    \/ \E w \in WorkIDs, new_resource \in {None, 2} :
           migrate(w, HomeOf(2), new_resource)
    \/ \E j \in WorkIDs : unpause(j)
    \/ Tick
    \/ WorkerOrigin(1)

SpecOrigin == Init /\ [][NextOrigin]_vars

\* SpecDone: allDone is called once, while no scheduling work is queued and
\* no worker is running; afterwards automatic replies and attendee
\* refreshes are enqueued and run by the workers.
NothingQueued == JOB = {} /\ \A p \in Workers : pc[p] = "idle"

NextDone ==
    \/ NothingQueued /\ allDone
    \/ drain.armedAt > 0 /\ autoReply(1)
    \/ drain.armedAt > 0 /\ \E a \in TriggerSets : refreshAttendees(1, a)
    \/ Tick
    \/ \E p \in Workers :
          \/ \E j \in WorkIDs : PickJob(p, j)
          \/ runlock(p)
          \/ doWorkAutoReply(p)
          \/ doWorkRefresh(p)
          \/ \E b \in SUBSET Attendees : doWorkRefreshSelect(p, b)
          \/ doWorkRefreshDelete(p)
          \/ afterWork(p)

SpecDone == Init /\ [][NextDone]_vars

\* SpecNotify: allDone is called once, while no scheduling work is queued
\* and no worker is running; afterwards automatic replies are enqueued for
\* the two resources, whose UIDs differ, and run by the two workers.
NextNotify ==
    \/ NothingQueued /\ allDone
    \/ drain.armedAt > 0 /\ \E r \in ResourceIDs : autoReply(r)
    \/ Tick
    \/ \E p \in Workers :
          \/ \E j \in WorkIDs : PickJob(p, j)
          \/ runlock(p)
          \/ doWorkAutoReply(p)
          \/ afterWork(p)

SpecNotify == Init /\ [][NextNotify]_vars

\* SpecError: work of every kind is enqueued for resource 1, one call at a
\* time when no job is queued, and run by one worker; every
\* execution either returns or has a collaborator raise an exception, after
\* which the job primitive aborts the transaction.
CallerError ==
    /\ JOB = {}
    /\ \/ scheduleOrganizer(1, TRUE)
       \/ scheduleSend(1, TRUE, "A", 0)
       \/ reply(1, TRUE)
       \/ autoReply(1)
       \/ refreshAttendees(1, {"A", "B", "C"})

ErrorResponses(recipient) ==
    {OneResponse(recipient, c) : c \in {MESSAGE_DELIVERED_CODE, NO_USER_SUPPORT_CODE}}

CanRaise(p) == cur[p] # 0 /\ job[cur[p]].failed < MaxErrors

WorkerError(p) ==
    \/ \E j \in WorkIDs : PickJob(p, j)
    \/ runlock(p)
    \/ doWorkOrganizer(p, 1, "A")
    \/ CanRaise(p) /\ doWorkOrganizerRaises(p, 1, "A")
    \/ \E qr \in ErrorResponses("A") : doWorkSend(p, 1, qr)
    \/ CanRaise(p) /\ \E qr \in ErrorResponses("A") : doWorkSendRaises(p, 1, qr)
    \/ \E qr \in ErrorResponses(Organizer) : doWorkReply(p, qr)
    \/ CanRaise(p) /\ \E qr \in ErrorResponses(Organizer) : doWorkReplyRaises(p, qr)
    \/ doWorkAutoReply(p)
    \/ CanRaise(p) /\ doWorkAutoReplyRaises(p)
    \/ doWorkRefresh(p)
    \/ \E b \in SUBSET Attendees : doWorkRefreshSelect(p, b)
    \/ doWorkRefreshDelete(p)
    \/ CanRaise(p) /\ doWorkRefreshDeleteRaises(p)
    \/ afterWork(p)
    \/ failedToRun(p)

NextError == CallerError \/ Tick \/ WorkerError(1)

SpecError == Init /\ [][NextError]_vars

\* SpecChain: Organizer-Send items of one UID are enqueued, staggered or
\* not, and run by two workers; an execution returns, ends with a temporary
\* failure (a pending delivery) or has a collaborator raise an exception.
CallerChain == \E g \in Staggers : scheduleSend(1, TRUE, "A", g)

WorkerChain(p) ==
    \/ \E j \in WorkIDs : PickJob(p, j)
    \/ runlock(p)
    \/ \E qr \in {<< <<i>> >> : i \in RetryItems({"A"})} : doWorkSend(p, 1, qr)
    \/ CanRaise(p) /\ doWorkSendRaises(p, 1, OneResponse("A", MESSAGE_DELIVERED_CODE))
    \/ afterWork(p)
    \/ failedToRun(p)

NextChain == CallerChain \/ Tick \/ \E p \in Workers : WorkerChain(p)

SpecChain == Init /\ [][NextChain]_vars

\* SpecRemove: organizer sends and automatic replies are enqueued for
\* resource 1 and run by two workers while a synchronous mutator, in the
\* collaborator for the UID, stores the calendar object or deletes it.
MutatorRemove ==
    \/ mutatorEnter(UidOf(1))
    \/ mutatorRemove(UidOf(1))
    \/ mutatorRemoved(UidOf(1))
    \/ 1 \notin removing /\ mutatorCommit(UidOf(1))

WorkerRemove(p) ==
    \/ \E j \in WorkIDs : PickJob(p, j)
    \/ \E j \in WorkIDs : loadForJobOrphan(p, j)
    \/ runlock(p)
    \/ \E sr \in {None, 1} :
           doWorkSend(p, sr, OneResponse("A", MESSAGE_DELIVERED_CODE))
    \/ doWorkAutoReply(p)
    \/ afterWork(p)

NextRemove ==
    \/ scheduleSend(1, TRUE, "A", 0)
    \/ autoReply(1)
    \/ Tick
    \/ MutatorRemove
    \/ \E p \in Workers : WorkerRemove(p)

SpecRemove == Init /\ [][NextRemove]_vars

\* SpecMissing: replies, automatic replies and attendee refreshes are
\* enqueued for resource 1, which is removed at any time, before or after;
\* two workers run the items.
CallerMissing ==
    \/ reply(1, TRUE)
    \/ autoReply(1)
    \/ \E a \in {{"A"}, {"A", "B", "C"}} : refreshAttendees(1, a)
    \/ removeResource(1)

WorkerMissing(p) ==
    \/ \E j \in WorkIDs : PickJob(p, j)
    \/ runlock(p)
    \/ doWorkReply(p, OneResponse(Organizer, NO_USER_SUPPORT_CODE))
    \/ doWorkAutoReply(p)
    \/ doWorkRefresh(p)
    \/ \E b \in SUBSET Attendees : doWorkRefreshSelect(p, b)
    \/ doWorkRefreshDelete(p)
    \/ afterWork(p)

NextMissing == CallerMissing \/ Tick \/ \E p \in Workers : WorkerMissing(p)

SpecMissing == Init /\ [][NextMissing]_vars

\* SpecLock: organizer sends and automatic replies are enqueued for two
\* resources and run by the workers while the object store deletes
\* resource 1.
NextLock ==
    \/ \E r \in ResourceIDs : scheduleSend(r, TRUE, "A", 0)
    \/ autoReply(1)
    \/ cascadeDelete(1)
    \/ cascadeCommit
    \/ Tick
    \/ \E p \in Workers :
          \/ \E j \in WorkIDs : PickJob(p, j)
          \/ \E j \in WorkIDs : loadForJobOrphan(p, j)
          \/ runlock(p)
          \/ \E sr \in ResourceIDs :
                 doWorkSend(p, sr, OneResponse("A", MESSAGE_DELIVERED_CODE))
          \/ doWorkAutoReply(p)
          \/ afterWork(p)

SpecLock == Init /\ [][NextLock]_vars

\* ------------------------------------------------------------- claims
\* Worker p is past runlock and its transaction has not ended.
Executing(p) == pc[p] \in {"doWork", "select", "delete", "afterWork", "raised"}

\* C1: at most one work item of a UID executes at a time: two workers that
\* are both past runlock and before the end of their transactions run items
\* of different UIDs, and each holds the row lock of its own item's group.
C1_MutualExclusion ==
    \A p \in Workers :
        Executing(p) =>
            /\ cur[p] \in locks[p]
            /\ \A q \in Workers \ {p} :
                   Executing(q) =>
                       rec[cur[p]].icalendarUID # rec[cur[q]].icalendarUID

\* C1 witness: p executes an item of a UID while q has picked a sibling that
\* was inserted after p took the group lock and is about to try the lock.
C1_Witness ==
    \E p \in Workers, q \in Workers :
        /\ p # q
        /\ Executing(p)
        /\ pc[q] = "runlock"
        /\ rec[cur[q]].icalendarUID = rec[cur[p]].icalendarUID
        /\ cur[q] \notin locks[p]

\* C9: when an Organizer-Send item completes and exactly one other item of
\* its UID is queued, an Organizer-Send item, the step that ends the
\* execution leaves that sibling's notBefore at the current time.
OtherQueued(p) == {i \in SW \ {cur[p]} : rec[i].icalendarUID = rec[cur[p]].icalendarUID}
C9_Chaining ==
    [][\A p \in Workers : \A s \in WorkIDs :
          (/\ pc[p] = "afterWork" /\ pc'[p] = "idle"
           /\ rec[cur[p]].workType = KSend
           /\ OtherQueued(p) = {s}
           /\ rec[s].workType = KSend)
          => job'[s].notBefore = 0]_vars

\* C9 witness: an Organizer-Send item is about to complete while its only
\* sibling, another Organizer-Send item, has its notBefore in the future by
\* more than the request delay (it was staggered).
C9_Witness ==
    \E p \in Workers, s \in WorkIDs :
        /\ pc[p] = "afterWork"
        /\ rec[cur[p]].workType = KSend
        /\ OtherQueued(p) = {s}
        /\ rec[s].workType = KSend
        /\ job[s].notBefore > RequestDelaySeconds

\* Worker p has made the scheduling attempt of an Organizer-Send or
\* Attendee-Reply item and every delivery response it got is coded pending.
AttemptAllPending(p) ==
    /\ pc[p] \in {"afterWork", "raised"}
    /\ rec[cur[p]].workType \in {KSend, KReply}
    /\ \A i \in 1..Len(Flatten(loc[p].queuedResponses)) :
           statusCode(Flatten(loc[p].queuedResponses)[i].reqstatus) = MESSAGE_PENDING_CODE

\* The execution raised the temporary failure, wrote no calendar data, did
\* not call the dequeue hook, and its rows are still there.
RaisedTemporary(p) ==
    /\ pc[p] = "raised"
    /\ loc[p].raised = "JobTemporaryError"
    /\ loc[p].delay = TemporaryFailureDelay
    /\ tx[p].status = {}
    /\ loc[p].dequeued = 0
    /\ cur[p] \in SW /\ cur[p] \in IT /\ cur[p] \in JOB

\* The step of the job primitive after the error leaves the item queued and
\* the calendar data as it was, and sets notBefore to the delay.
StaysQueued(p) ==
    (pc[p] = "raised" /\ pc'[p] = "idle")
    => /\ cur[p] \in SW' /\ cur[p] \in IT' /\ cur[p] \in JOB'
       /\ caldata' = caldata
       /\ queued' = queued
       /\ job'[cur[p]].notBefore = TemporaryFailureDelay

\* C2 as stated: all responses pending and the failure count under the
\* maximum make the execution raise the temporary failure.
C2_Original ==
    \A p \in Workers :
        (AttemptAllPending(p) /\ job[cur[p]].failed < MaxTemporaryFailures)
        => RaisedTemporary(p)

\* C2, amended: when the execution has a resource (scheduler.resource, or the
\* reply's resource, is not None), all responses are pending and the failure
\* count is under the maximum, the execution raises the temporary failure
\* with TemporaryFailureDelay, writes no calendar data and does not call the
\* dequeue hook, and the work item stays queued.
C2_RetryUnderBudget ==
    /\ [](\A p \in Workers :
            (/\ AttemptAllPending(p)
             /\ loc[p].resource # None
             /\ job[cur[p]].failed < MaxTemporaryFailures)
            => RaisedTemporary(p))
    /\ [][\A p \in Workers : StaysQueued(p)]_vars

\* C2 witness: a reply raised the temporary failure on its last retry.
C2_Witness ==
    \E p \in Workers :
        /\ AttemptAllPending(p)
        /\ pc[p] = "raised"
        /\ rec[cur[p]].workType = KReply
        /\ job[cur[p]].failed = MaxTemporaryFailures - 1

\* The properties the responses of p's execution are matched with.
Matching(p) ==
    {q \in PropsFor(rec[cur[p]].workType = KSend) :
        \E i \in 1..Len(loc[p].responses) : loc[p].responses[i][1] = q[2]}

\* The execution went on without raising: every result is rewritten to
\* service unavailable, the calendar to be written has that code on every
\* matching property, and the dequeue hook was called.
WentOnUnavailable(p) ==
    /\ pc[p] = "afterWork"
    /\ loc[p].raised = "none"
    /\ loc[p].dequeued = 1
    /\ \A i \in 1..Len(loc[p].responses) :
           loc[p].responses[i][2] = SERVICE_UNAVAILABLE_CODE
    /\ \A q \in Matching(p) :
           \E w \in tx[p].status :
               w[1] = loc[p].resource /\ w[2][q] = SERVICE_UNAVAILABLE_CODE

\* The commit of the execution stores the code on every matching property.
StoresUnavailable(p) ==
    (/\ pc[p] = "afterWork" /\ pc'[p] = "idle"
     /\ AttemptAllPending(p)
     /\ loc[p].resource # None)
    => \A q \in Matching(p) : caldata'[loc[p].resource][q] = SERVICE_UNAVAILABLE_CODE

\* C3 as stated: all responses pending and the failure count at or above the
\* maximum make the execution rewrite every code and complete normally.
C3_Original ==
    \A p \in Workers :
        (AttemptAllPending(p) /\ job[cur[p]].failed >= MaxTemporaryFailures)
        => WentOnUnavailable(p)

\* C3, amended: when the execution has a resource, all responses are pending
\* and the failure count is at or above the maximum (equal counts), no
\* temporary failure is raised, every result is rewritten to the
\* service-unavailable code, that code is stored as the delivery status of
\* every matching ATTENDEE/ORGANIZER property, and the execution completes
\* normally.
C3_RetryExhausted ==
    /\ [](\A p \in Workers :
            (/\ AttemptAllPending(p)
             /\ loc[p].resource # None
             /\ job[cur[p]].failed >= MaxTemporaryFailures)
            => WentOnUnavailable(p))
    /\ [][\A p \in Workers : StoresUnavailable(p)]_vars

\* C3 witness: a send whose failure count equals the maximum went on with a
\* matching ATTENDEE property to write.
C3_Witness ==
    \E p \in Workers :
        /\ AttemptAllPending(p)
        /\ pc[p] = "afterWork"
        /\ rec[cur[p]].workType = KSend
        /\ loc[p].resource # None
        /\ job[cur[p]].failed = MaxTemporaryFailures
        /\ Matching(p) # {}

\* Work item j ran to completion: its job row is deleted.
Completed(j) == j < nextID /\ j \notin JOB

\* The service-unavailable status is recorded in the calendar data of the
\* resource of work item j.
Recorded(j) ==
    \E q \in Props :
        caldata[ResourceOfUid(rec[j].icalendarUID)][q] = SERVICE_UNAVAILABLE_CODE

\* C4 as stated: every item whose deliveries stay pending terminates with the
\* service-unavailable status recorded.
C4_Original == \A j \in WorkIDs : Completed(j) => Recorded(j)

\* The completing step of an execution with a resource comes after exactly
\* MaxTemporaryFailures temporary failures and stores the service-unavailable
\* status on every matching property; one without a resource stores nothing.
CompletesBounded(p) ==
    (pc[p] = "afterWork" /\ pc'[p] = "idle")
    => IF loc[p].resource # None
       THEN /\ job[cur[p]].failed = MaxTemporaryFailures
            /\ \A q \in Matching(p) :
                   caldata'[loc[p].resource][q] = SERVICE_UNAVAILABLE_CODE
       ELSE caldata' = caldata

\* C4, amended: with the job primitive incrementing the failure count on
\* every temporary failure and re-running the item, a work item whose
\* deliveries stay pending raises a temporary failure at most
\* MaxTemporaryFailures times and then eventually terminates; the
\* service-unavailable status is recorded on the matching properties when the
\* terminating execution has a resource, and nothing is recorded when it has
\* none.  It is never retried forever.
C4_BoundedRetry ==
    /\ [](\A j \in WorkIDs : job[j].failed <= MaxTemporaryFailures)
    /\ [][\A p \in Workers : CompletesBounded(p)]_vars
    /\ \A j \in 1..MaxCalls : (j \in JOB) ~> Completed(j)

\* C4 witness: an item completed after MaxTemporaryFailures temporary
\* failures and the status is recorded.
C4_Witness ==
    \E j \in WorkIDs :
        /\ Completed(j)
        /\ job[j].failed = MaxTemporaryFailures
        /\ Recorded(j)

\* The committed pending rows of resource r.
RowsOf(r) == {x \in sra : x.res = r}

\* No pending row has been deleted so far: every row ever inserted is there.
NoDrainYet == Cardinality(sra) = nextRow - 1

\* The commit of a trigger inserts one row for each requested attendee that
\* is not in the pending set the trigger read, and no other row.
InsertsOnlyNew(t) ==
    (trig[t].pc = "insert" /\ trig'[t].pc = "idle")
    => /\ sra \subseteq sra'
       /\ \A x \in sra' \ sra : x.res = trig[t].res
       /\ {x.att : x \in sra' \ sra} = trig[t].attendees \ trig[t].pending
       /\ Cardinality(sra' \ sra) = Cardinality(trig[t].attendees \ trig[t].pending)

HasDeleted(p) ==
    /\ pc[p] = "afterWork"
    /\ rec[cur[p]].workType = KRefresh
    /\ loc[p].attendeesToProcess # {}

\* The rows the Delete statement of p's execution removes at its commit.
Doomed(p) == {x \in sra : x.row \in tx[p].sraDel}

\* C6 as stated: the execution deletes precisely the rows it read for the
\* batch, never a row it did not read.
C6_Original ==
    \A p \in Workers :
        HasDeleted(p)
        => Doomed(p) = {x \in loc[p].pendingRows : x.att \in loc[p].attendeesToProcess}

\* The Delete statement takes every row of the resource that is in the
\* ledger when it runs and whose attendee is in the batch.
DeleteTakesBatch(p) ==
    (pc[p] = "delete" /\ pc'[p] = "afterWork")
    => tx'[p].sraDel =
           {x.row : x \in {y \in sra : /\ y.res = rec[cur[p]].resourceID
                                       /\ y.att \in loc[p].attendeesToProcess}}

\* The commit of a Refresh execution removes the doomed rows and no other.
CommitDeletes(p) ==
    (HasDeleted(p) /\ pc'[p] = "idle") => sra' = sra \ Doomed(p)

\* C6, amended: the batch deletion of a Refresh execution removes every row
\* of its resource whose attendee is in the batch it read, the rows it read
\* for the batch among them and also a row for a batch attendee that a
\* concurrent trigger inserted between the read and the delete; it never
\* removes a row of an attendee outside the batch or of another resource, so
\* a row inserted in between for a new attendee is still in the ledger
\* afterwards.
C6_DrainExactness ==
    /\ [](\A p \in Workers :
            HasDeleted(p)
            => /\ {x \in loc[p].pendingRows : x.att \in loc[p].attendeesToProcess}
                      \subseteq Doomed(p)
               /\ \A x \in Doomed(p) :
                      /\ x.res = rec[cur[p]].resourceID
                      /\ x.att \in loc[p].attendeesToProcess)
    /\ [][\A p \in Workers : DeleteTakesBatch(p) /\ CommitDeletes(p)]_vars

\* C6 witness: the execution is about to commit a deletion that takes a row
\* it did not read, while the ledger holds another row it did not read, of
\* an attendee outside the batch.
C6_Witness ==
    \E p \in Workers :
        /\ HasDeleted(p)
        /\ \E x \in Doomed(p) : x \notin loc[p].pendingRows
        /\ \E x \in sra : /\ x \notin loc[p].pendingRows
                          /\ x.res = rec[cur[p]].resourceID
                          /\ x.att \notin loc[p].attendeesToProcess

\* The Refresh execution of p found a later Refresh item for its home and
\* resource still queued.
Superseded(p) ==
    /\ pc[p] = "afterWork"
    /\ rec[cur[p]].workType = KRefresh
    /\ \E i \in loc[p].rows : i > cur[p]

\* C7: a Refresh execution that finds a later Refresh item for the same
\* (home, resource) still queued is a no-op: it deletes no pending row,
\* performs no refresh send and enqueues no follow-up.
C7_RefreshCollapse ==
    /\ [](\A p \in Workers :
            Superseded(p)
            => /\ tx[p].sraDel = {}
               /\ tx[p].newWork = {}
               /\ loc[p].sent = {}
               /\ loc[p].attendeesToProcess = {})
    /\ [][\A p \in Workers :
            (Superseded(p) /\ pc'[p] = "idle")
            => /\ sra' = sra
               /\ nextID' = nextID
               /\ SW' = SW \ {cur[p]}
               /\ IT' = IT \ {cur[p]}
               /\ JOB' = JOB \ {cur[p]}]_vars

\* C7 witness: a superseded execution while the ledger holds rows.
C7_Witness ==
    \E p \in Workers :
        /\ Superseded(p)
        /\ RowsOf(rec[cur[p]].resourceID) # {}

\* A Refresh work item for resource r is queued.
RefreshQueued(r) ==
    \E i \in IT \cap JOB : rec[i].workType = KRefresh /\ rec[i].resourceID = r

\* The row numbered n is in the ledger.
InLedger(n) == \E x \in sra : x.row = n

\* The commit that removes pending rows is that of a Refresh execution that
\* took their attendees in its batch and sent the refresh for them.
TakenAndRefreshed(p) ==
    (pc[p] = "afterWork" /\ pc'[p] = "idle" /\ sra' # sra)
    => /\ rec[cur[p]].workType = KRefresh
       /\ \A x \in sra \ sra' : x.att \in loc[p].attendeesToProcess
       /\ loc[p].sent = {"refreshAllAttendeesExceptSome"}

\* C8: under fair scheduling every attendee put in the ledger by a trigger
\* is eventually taken in a batch and refreshed, and a pending attendee is
\* never in the ledger with no Refresh work item queued for its resource.
C8_RefreshLiveness ==
    /\ [](\A r \in ResourceIDs : PendingOf(r) # {} => RefreshQueued(r))
    /\ [][\A p \in Workers : TakenAndRefreshed(p)]_vars
    /\ \A n \in 1..(2 * MaxCalls) : InLedger(n) ~> ~InLedger(n)

\* C8 witness: the last batch was committed, leaving the ledger empty, by a
\* follow-up item.
C8_Witness ==
    /\ nextRow > 3
    /\ sra = {}
    /\ nextID > MaxCalls + 1
    /\ JOB = {}

\* A call of migrate has just returned for an item that had a resource id,
\* or is a refresh or an auto-reply, with the callback resolving no resource.
MigratedUnmapped ==
    /\ migrated' # migrated
    /\ migrated'.new_resource = None
    /\ \/ rec[migrated'.work].workType \in {KRefresh, KAutoReply}
       \/ rec[migrated'.work].resourceID # None

\* C10: when mapIDsCallback resolves the new resource to None, migrate of an
\* Organizer, Organizer-Send or Reply item with a resource id, and of every
\* Refresh and Auto-Reply item, returns False and creates no SCHEDULE_WORK
\* row, no work item, no job and no pending-attendee row.
C10_MigrateUnmapped ==
    [][MigratedUnmapped
       => /\ migrated'.result = FALSE
          /\ UNCHANGED <<rec, job, SW, IT, JOB, nextID, sra, nextRow, queued>>]_vars

\* C10 witness: migrate returned False for an Organizer-Send item that has a
\* resource id, while items and pending rows exist and ids are left.
C10_Witness ==
    /\ migrated.work # 0
    /\ migrated.new_resource = None
    /\ ~migrated.result
    /\ rec[migrated.work].workType = KSend
    /\ rec[migrated.work].resourceID # None
    /\ nextID <= MaxCalls

\* A call of migrate has just returned with the callback resolving a new
\* resource.
MigratedMapped == migrated' # migrated /\ migrated'.new_resource # None

\* The call returned True, created the one work item migrated'.created, of
\* the kind of the original, with the mapped ids and pause set, and left the
\* original item, its SCHEDULE_WORK row and its job as they were.
MigrateCreatesOne ==
    LET w == migrated'.work
        n == migrated'.created
    IN  /\ migrated'.result
        /\ n = nextID /\ nextID' = nextID + 1
        /\ SW' = SW \cup {n} /\ IT' = IT \cup {n} /\ JOB' = JOB \cup {n}
        /\ n \notin SW /\ w \in SW /\ w \in IT /\ w \in JOB
        /\ \A i \in WorkIDs \ {n} : rec'[i] = rec[i] /\ job'[i] = job[i]
        /\ rec'[n].workType = rec[w].workType
        /\ rec'[n].homeResourceID = migrated'.new_home
        /\ rec'[n].resourceID = migrated'.new_resource
        /\ job'[n].pause = 1

\* The new item has the kind-specific payload of the original.
SamePayload(old, new) ==
    /\ new.attendee = old.attendee
    /\ new.attendeeCount = old.attendeeCount

\* C11 as stated: the new item of every kind carries the payload of the
\* original.
C11_Original ==
    [][MigratedMapped
       => /\ MigrateCreatesOne
          /\ SamePayload(rec[migrated'.work], rec'[migrated'.created])]_vars

\* C11, amended: when the callback resolves a new resource, migrate returns
\* True and creates exactly one new work item of the same kind with the
\* mapped home and resource ids and pause set, and leaves the original item,
\* its WorkGroup row and its job unchanged.  The new item carries the
\* kind-specific payload of the original, except that for a Refresh item the
\* attendee count is the number of pending-attendee rows of the original's
\* resource, whose attendees migrate also adds to the ledger of the new
\* resource when they are not pending there.
C11_MigrateMapped ==
    [][MigratedMapped
       => /\ MigrateCreatesOne
          /\ IF rec[migrated'.work].workType = KRefresh
             THEN /\ rec'[migrated'.created].attendeeCount =
                         Cardinality({x \in sra : x.res = rec[migrated'.work].resourceID})
                  /\ sra \subseteq sra'
                  /\ {x.att : x \in sra' \ sra} =
                         PendingOf(rec[migrated'.work].resourceID)
                             \ PendingOf(migrated'.new_resource)
                  /\ \A x \in sra' \ sra : x.res = migrated'.new_resource
             ELSE /\ SamePayload(rec[migrated'.work], rec'[migrated'.created])
                  /\ sra' = sra]_vars

\* C11 witness: a Send item with its attendee was migrated to resource 2 and
\* the paused copy is queued next to the original.
C11_Witness ==
    /\ migrated.result
    /\ migrated.new_resource = 2
    /\ rec[migrated.work].workType = KSend
    /\ migrated.created \in SW \cap IT \cap JOB
    /\ migrated.work \in SW \cap IT \cap JOB
    /\ rec[migrated.created].attendee = "A"
    /\ job[migrated.created].pause = 1

\* The step clears the pause flag of job j and does nothing else.
OnlyUnpauses(j) ==
    /\ job' = [job EXCEPT ![j].pause = 0]
    /\ UNCHANGED <<rec, SW, IT, JOB, nextID, sra, nextRow, caldata, resources,
                   workerVars, envVars, queued>>

\* C12: a work item is never run while its pause flag is set, whatever its
\* notBefore; no step of a caller or of an execution, the chaining of
\* afterWork included, clears the flag: only the unpause step does.
C12_PausedNeverRuns ==
    /\ [](\A p \in Workers : cur[p] # 0 => job[cur[p]].pause = 0)
    /\ [][\A j \in WorkIDs :
            (job[j].pause = 1 /\ job'[j].pause # 1) => OnlyUnpauses(j)]_vars
    /\ [][\A p \in Workers, j \in WorkIDs :
            (job[j].pause = 1 /\ job'[j].pause = 1) => cur'[p] # j]_vars

\* C12 witness: the copy made by migrate is still paused and waiting after
\* the chaining of a completed sibling moved its notBefore to now, while an
\* item enqueued before it has not reached its notBefore.
C12_Witness ==
    /\ migrated.created # 0
    /\ migrated.created \in JOB
    /\ job[migrated.created].pause = 1
    /\ job[migrated.created].notBefore = 0
    /\ \E m \in JOB : m < migrated.created /\ job[m].notBefore > 0
    /\ \E k \in WorkIDs :
          /\ Completed(k)
          /\ rec[k].workType = KSend
          /\ rec[k].icalendarUID = rec[migrated.created].icalendarUID
    /\ \A p \in Workers : pc[p] = "idle"

\* C13: every execution whose doWork returned normally has called the
\* dequeue hook, exactly once.
C13_DequeueOnce ==
    \A p \in Workers : pc[p] = "afterWork" => loc[p].dequeued = 1

\* ------------------------------------------------------------------- C14
\* The items enqueued since allDone was armed.
EnqueuedSince == {w \in WorkIDs : drain.armedAt > 0 /\ drain.armedAt <= w /\ w < nextID}

\* Every item enqueued since allDone was armed has completed normally and
\* its transaction is committed.
AllCompleted ==
    /\ EnqueuedSince # {}
    /\ EnqueuedSince \subseteq drain.completed
    /\ NothingQueued

\* C14: allDone having been armed while nothing was queued, once every item
\* enqueued afterwards has completed normally and the transaction of the
\* last one is committed, the in-flight counter is zero and the completion
\* notification has fired.
C14_DrainNotification ==
    AllCompleted => queued = 0 /\ drain.fired = 1

\* ------------------------------------------------------------------- C15
\* An exception was raised in the execution of worker p.
ErrorPath(p) == Executing(p) /\ loc[p].raised = "Exception"

\* The exception reached the job primitive: the execution did not go on to
\* its commit, and the dequeue hook was not called.
Propagated == \A p \in Workers :
    ErrorPath(p) => pc[p] = "raised" /\ loc[p].dequeued = 0 /\ ~loc[p].postCommit

\* The step that ends an execution on the error path leaves the committed
\* work rows, job rows, pending-attendee ledger and calendar data as they
\* are, whatever the transaction had written, and the job stays queued.
AbortedUnchanged == \A p \in Workers :
    (ErrorPath(p) /\ ~ErrorPath(p)') =>
        /\ SW' = SW /\ IT' = IT /\ JOB' = JOB
        /\ sra' = sra /\ caldata' = caldata
        /\ tx'[p] = EmptyTx
        /\ pc'[p] = "idle"

\* C15: an exception raised while a work item of any kind executes reaches
\* the job primitive and is never swallowed; on that path the dequeue hook
\* is not called and, the transaction being aborted, the work item row, the
\* pending-attendee ledger and the calendar data stay as they were.
C15_ErrorPropagates == []Propagated /\ [][AbortedUnchanged]_vars

\* C15 witness: a Refresh item whose execution raised after it had deleted
\* its batch and enqueued its follow-up is queued again, with the ledger
\* rows of its resource in place and no follow-up row.
C15_Witness ==
    /\ \A p \in Workers : pc[p] = "idle"
    /\ \E j \in IT \cap JOB :
          /\ rec[j].workType = KRefresh
          /\ job[j].failed > 0
          /\ Cardinality({x \in sra : x.res = rec[j].resourceID}) > AttendeeRefreshBatch
          /\ \A i \in IT : rec[i].workType = KRefresh => i = j

\* ------------------------------------------------------------------- C16
\* The execution of worker p looked its resource up, found none and ended.
MissingResource(p) ==
    /\ pc[p] = "afterWork"
    /\ loc[p].dequeued = 1
    /\ rec[cur[p]].resourceID # None
    /\ loc[p].resource = None

\* The claim as stated: such an execution sent nothing, deleted no
\* pending-attendee row and no other work item and enqueued none.
C16_Original == \A p \in Workers :
    MissingResource(p) =>
        /\ loc[p].sent = {}
        /\ tx[p].sraDel = {}
        /\ tx[p].delItems \ {cur[p]} = {}
        /\ tx[p].newWork = {}

\* What the step of worker p that ends such an execution has done.
SkipsOnlyTheCall(p) ==
    (~MissingResource(p) /\ MissingResource(p)') =>
        LET self == rec[cur[p]]
            t == tx'[p]
            l == loc'[p]
        IN  /\ l.raised = "none"
            /\ t.status = {}
            /\ self.workType = KReply =>
                   /\ l.sent = {"sendToOrganizer"}
                   /\ t.sraDel = {} /\ t.delItems = {} /\ t.newWork = {}
            /\ self.workType = KAutoReply =>
                   /\ l.sent = {}
                   /\ t.delItems = {i \in IT : /\ rec[i].workType = KAutoReply
                                               /\ rec[i].resourceID = self.resourceID}
                   /\ t.sraDel = {} /\ t.newWork = {}
            /\ self.workType = KRefresh =>
                   /\ l.sent = {}
                   /\ t.sraDel = {x.row : x \in
                         {y \in sra : /\ y.res = self.resourceID
                                      /\ y.att \in loc[p].attendeesToProcess}}
                   /\ (t.newWork # {}) =
                          (loc[p].pendingAttendees \ loc[p].attendeesToProcess # {})
                   /\ t.delItems = {}

\* C16: when the resource of a Reply, Auto-Reply or Refresh item no longer
\* exists at execution time the execution ends without an error and writes
\* no calendar data; the refresh and the automatic reply are not sent, but
\* a Reply is still sent to the organizer, a Refresh still deletes its batch
\* from the pending-attendee ledger and enqueues its follow-up when
\* attendees remain, and an Auto-Reply still deletes the Auto-Reply rows of
\* its resource id.
C16_MissingResource == [][\A p \in Workers : SkipsOnlyTheCall(p)]_vars

\* C16 witness: a Refresh item whose resource is gone has deleted its batch
\* and enqueued a follow-up, and has not called the refresh.
C16_Witness ==
    \E p \in Workers :
        /\ MissingResource(p)
        /\ rec[cur[p]].workType = KRefresh
        /\ tx[p].sraDel # {} /\ tx[p].newWork # {}
        /\ loc[p].sent = {}

\* ------------------------------------------------------------------- C17
\* Every committed work item row has its SCHEDULE_WORK row, which carries
\* the UID of the calendar object of the item's home.
HasWorkGroup ==
    \A i \in IT :
        /\ i \in SW
        /\ \E r \in ResourceIDs :
              rec[i].homeResourceID = HomeOf(r) /\ rec[i].icalendarUID = UidOf(r)

\* A work item row is committed by the step that commits its
\* SCHEDULE_WORK row.
CreatedTogether ==
    \A i \in WorkIDs : (i \notin IT /\ i \in IT') => (i \notin SW /\ i \in SW')

\* C17: in every committed state every work item row has the SCHEDULE_WORK
\* row of its workID, committed by the same transaction and carrying the
\* UID the item was created for; no creation leaves an item without it.
C17_WorkGroup == []HasWorkGroup /\ [][CreatedTogether]_vars

\* C17 witness: items are queued after an execution has committed the
\* deletion of its own rows, and an Auto-Reply has left a SCHEDULE_WORK row
\* without item.
C17_Witness ==
    /\ IT # {}
    /\ drain.completed # {}
    /\ SW \ IT # {}
    /\ \E i \in IT : i > MaxCalls

\* ------------------------------------------------------------------- C18
\* Worker p has made the scheduling attempt of an item that has a resource
\* and the delivery responses hold a delivered result, a pending result and
\* nothing else.
AttemptMixed(p) ==
    /\ pc[p] \in {"afterWork", "raised"}
    /\ rec[cur[p]].workType \in {KSend, KReply}
    /\ loc[p].resource # None
    /\ LET items == Flatten(loc[p].queuedResponses)
           codes == {statusCode(items[i].reqstatus) : i \in 1..Len(items)}
       IN  codes = {MESSAGE_DELIVERED_CODE, MESSAGE_PENDING_CODE}

\* The claim as stated: mixed results under the failure maximum raise the
\* temporary failure.
C18_Original ==
    \A p \in Workers :
        (AttemptMixed(p) /\ job[cur[p]].failed < MaxTemporaryFailures)
        => RaisedTemporary(p)

\* The execution went on: no error, the results as they came, the pending
\* code on its way to the matching properties of the calendar data, the
\* dequeue hook called.
WentOnPending(p) ==
    /\ pc[p] = "afterWork"
    /\ loc[p].raised = "none"
    /\ loc[p].dequeued = 1
    /\ loc[p].responses = extractSchedulingResponse(loc[p].queuedResponses).results
    /\ \A i \in 1..Len(loc[p].responses) :
           loc[p].responses[i][2] = MESSAGE_PENDING_CODE =>
               \A q \in Matching(p) :
                   q[2] = loc[p].responses[i][1] =>
                       \E w \in tx[p].status :
                           w[1] = loc[p].resource /\ w[2][q] = MESSAGE_PENDING_CODE

\* C18: the temporary failure is raised only when every delivery result is
\* coded pending; when the results hold a delivered one and the others are
\* pending, the failure count is not consulted, whatever it is: the
\* execution does not raise, records the pending code in the calendar data
\* and completes.
C18_MixedResults ==
    \A p \in Workers :
        /\ AttemptMixed(p) => WentOnPending(p)
        /\ (pc[p] = "raised" /\ loc[p].raised = "JobTemporaryError")
               => AttemptAllPending(p)

\* C18 witness: an Organizer-Send item that has failed before, under the
\* maximum, gets one delivered and one pending result and goes on to write
\* calendar data.
C18_Witness ==
    \E p \in Workers :
        /\ AttemptMixed(p)
        /\ job[cur[p]].failed = MaxTemporaryFailures - 1
        /\ pc[p] = "afterWork"
        /\ tx[p].status # {}

\* ------------------------------------------------------------------- C19
\* C19: runlock tries the group lock over the SCHEDULE_WORK rows of the
\* item's UID first and the item's own row lock only after it, without
\* blocking, and tells its caller that the item is locked only if both
\* locks were acquired: an execution that runlock let through holds the
\* lock of its SCHEDULE_WORK row and the lock of its own row.
C19_LockResult ==
    \A p \in Workers :
        pc[p] = "doWork" =>
            /\ cur[p] \in locks[p]
            /\ loc[p].ownLock

\* ------------------------------------------------------------------- C20
\* An Organizer-Send item of worker p completes.
SendCompletes(p) ==
    /\ pc[p] = "afterWork" /\ pc'[p] = "idle"
    /\ rec[cur[p]].workType = KSend

Oldest(rows) == CHOOSE i \in rows : \A k \in rows : i <= k

\* The claim as stated: the oldest other Organizer-Send row of the UID is
\* promoted, whatever other rows the UID has.
C20_Original ==
    [][\A p \in Workers :
          LET sends == {i \in OtherQueued(p) : rec[i].workType = KSend}
          IN  (SendCompletes(p) /\ sends # {})
                  => job'[Oldest(sends)].notBefore = 0]_vars

\* C20: when an Organizer-Send item for UID U completes, the row looked at
\* is the oldest (lowest workID) other SCHEDULE_WORK row for U of any kind,
\* orphan rows included; it is promoted when it is an Organizer-Send row,
\* and otherwise no job is promoted, whatever Organizer-Send items are
\* queued behind it.
C20_NextSibling ==
    [][\A p \in Workers :
          (SendCompletes(p) /\ OtherQueued(p) # {}) =>
              LET first == Oldest(OtherQueued(p))
              IN  /\ rec[first].workType = KSend => job'[first].notBefore = 0
                  /\ \A i \in WorkIDs :
                         (i # first \/ rec[first].workType # KSend)
                             => job'[i] = job[i]]_vars

\* C20 witness: an Organizer-Send item is about to complete while its UID
\* has a row of another kind that is older than a queued Organizer-Send
\* sibling whose notBefore is in the future.
C20_Witness ==
    \E p \in Workers, s \in WorkIDs, o \in WorkIDs :
        /\ pc[p] = "afterWork"
        /\ rec[cur[p]].workType = KSend
        /\ {s, o} \subseteq OtherQueued(p)
        /\ rec[s].workType = KSend
        /\ rec[o].workType # KSend
        /\ o < s
        /\ job[s].notBefore > 0

\* ------------------------------------------------------------------- C21
\* The jobs whose notBefore a step changes.
Rescheduled == {i \in WorkIDs : job'[i].notBefore # job[i].notBefore}

\* C21: the step that completes an Organizer-Coalesce, Attendee-Reply,
\* Attendee-Refresh or Auto-Reply item changes no job's notBefore; the step
\* that completes an Organizer-Send item changes the notBefore of at most
\* one job, which is of an Organizer-Send row with the same UID and another
\* workID.
C21_ChainingFrame ==
    [][\A p \in Workers :
          (pc[p] = "afterWork" /\ pc'[p] = "idle") =>
              /\ rec[cur[p]].workType # KSend => Rescheduled = {}
              /\ Cardinality(Rescheduled) <= 1
              /\ \A i \in Rescheduled :
                     /\ rec[i].workType = KSend
                     /\ rec[i].icalendarUID = rec[cur[p]].icalendarUID
                     /\ i # cur[p]]_vars

\* C21 witness: an item of another kind is about to complete while the
\* oldest other row of its UID is an Organizer-Send item that waits for its
\* notBefore.
C21_Witness ==
    \E p \in Workers, i \in SW :
        /\ pc[p] = "afterWork"
        /\ i # cur[p]
        /\ job[i].notBefore > 0
        /\ rec[i].workType = KSend
        /\ rec[i].icalendarUID = rec[cur[p]].icalendarUID
        /\ rec[cur[p]].workType \in {KOrganizer, KReply, KRefresh, KAutoReply}
        /\ NextWork(p) = {i}

\* ------------------------------------------------------------------- C22
\* The step that ends a call of refreshAttendees commits exactly one new
\* Refresh item for the resource of the call, due after the batch delay.
EnqueuesOne(t) ==
    (trig[t].pc = "insert" /\ trig'[t].pc = "idle") =>
        /\ IT' = IT \cup {nextID} /\ nextID \notin IT
        /\ SW' = SW \cup {nextID}
        /\ JOB' = JOB \cup {nextID}
        /\ rec'[nextID].workType = KRefresh
        /\ rec'[nextID].resourceID = trig[t].res
        /\ job'[nextID].notBefore = AttendeeRefreshBatchDelaySeconds
        /\ queued' = queued + 1

\* C22: every call of refreshAttendees enqueues exactly one new Refresh
\* item for the resource, with notBefore at the batch delay from now, also
\* when it inserted no row and when other Refresh items are queued.
C22_AlwaysEnqueues == [][\A t \in Triggers : EnqueuesOne(t)]_vars

\* C22 witness: two Refresh items are queued for resource 1 after two calls
\* of which the second found all its attendees pending and inserted none.
C22_Witness ==
    /\ {1, 2} \subseteq IT
    /\ \A i \in {1, 2} : rec[i].workType = KRefresh /\ rec[i].resourceID = 1
    /\ nextRow = 1 + rec[1].attendeeCount
    /\ rec[2].attendeeCount > 0
    /\ Cardinality(sra) = rec[1].attendeeCount

\* ------------------------------------------------------------------- C23
\* Worker p, whose Refresh execution is not superseded and has read a
\* non-empty pending set, runs the rest of doWork.
RefreshDrains(p) == pc[p] = "delete" /\ pc'[p] = "afterWork"

\* That step enqueues one follow-up, due after the inter-batch interval and
\* not paused, exactly when the de-duplicated set read is larger than the
\* batch size.
FollowUpIffMore(p) ==
    RefreshDrains(p) =>
        IF Cardinality(loc[p].pendingAttendees) > AttendeeRefreshBatch
        THEN /\ tx'[p].newWork = {nextID}
             /\ nextID' = nextID + 1
             /\ nextID \notin SW \cup IT \cup JOB
             /\ rec'[nextID].workType = KRefresh
             /\ rec'[nextID].resourceID = rec[cur[p]].resourceID
             /\ rec'[nextID].homeResourceID = rec[cur[p]].homeResourceID
             /\ rec'[nextID].icalendarUID = rec[cur[p]].icalendarUID
             /\ job'[nextID] = [notBefore |-> AttendeeRefreshBatchIntervalSeconds,
                                failed |-> 0, pause |-> 0]
        ELSE tx'[p].newWork = {} /\ nextID' = nextID

\* The commit of a Refresh execution adds the follow-up and nothing else.
CommitsFollowUp(p) ==
    (pc[p] = "afterWork" /\ pc'[p] = "idle" /\ rec[cur[p]].workType = KRefresh)
        => /\ IT' \ IT = tx[p].newWork
           /\ JOB' \ JOB = tx[p].newWork

C24_AlwaysReschedules ==
    \A p \in Workers :
        (/\ pc[p] = "afterWork"
         /\ rec[cur[p]].workType = KRefresh
         /\ loc[p].attendeesToProcess # {})
        => tx[p].newWork # {}

\* ------------------------------------------------------------------- C25
\* The Refresh items enqueued so far for the home and resource of item j,
\* j apart.
RefreshSiblings(j) ==
    {i \in 1..(nextID - 1) \ {j} :
        /\ rec[i].workType = KRefresh
        /\ rec[i].homeResourceID = rec[j].homeResourceID
        /\ rec[i].resourceID = rec[j].resourceID}

DrainsWhenAlone(p) ==
    (pc[p] = "doWork" /\ pc'[p] # "doWork" /\ rec[cur[p]].workType = KRefresh) =>
        /\ pc'[p] = "select" <=> RefreshSiblings(cur[p]) \cap IT = {}
        /\ pc'[p] = "afterWork" <=> RefreshSiblings(cur[p]) \cap IT # {}

ReadSet(p) == {x.att : x \in loc[p].pendingRows}

\* The batch of an execution that goes on to the drain: distinct attendees
\* of the rows read, no more than the batch size.
BatchBounded(p) ==
    pc[p] = "delete" =>
        /\ loc[p].pendingAttendees = ReadSet(p)
        /\ loc[p].attendeesToProcess \subseteq ReadSet(p)
        /\ Cardinality(loc[p].attendeesToProcess) <= AttendeeRefreshBatch
        /\ loc[p].attendeesToProcess # {}

\* The drain passes that batch on to the refresh and counts the rest for
\* the follow-up: batch and rest are disjoint and make up the set read.
BatchAndRest(p) ==
    RefreshDrains(p) =>
        LET batch == loc'[p].attendeesToProcess
            rest == loc'[p].pendingAttendees
        IN  /\ batch = loc[p].attendeesToProcess
            /\ batch \cap rest = {}
            /\ batch \cup rest = ReadSet(p)
            /\ \A i \in tx'[p].newWork : rec'[i].attendeeCount = Cardinality(rest)
            /\ rest # {} => tx'[p].newWork # {}

\* C26: the attendees one Refresh execution passes to the refresh send are
\* distinct, at most AttendeeRefreshBatch, a subset of the pending set the
\* execution read, and with the remainder counted for the follow-up they
\* make up that de-duplicated set.
C26_BatchBound ==
    /\ [](\A p \in Workers : BatchBounded(p))
    /\ [][\A p \in Workers : BatchAndRest(p)]_vars

\* C26 witness: an execution read more rows than distinct attendees, took
\* a full batch and left a remainder.
C26_Witness ==
    \E p \in Workers :
        /\ pc[p] = "afterWork"
        /\ rec[cur[p]].workType = KRefresh
        /\ Cardinality(loc[p].pendingRows) > Cardinality(ReadSet(p))
        /\ Cardinality(loc[p].attendeesToProcess) = AttendeeRefreshBatch
        /\ loc[p].pendingAttendees # {}
        /\ loc[p].sent = {"refreshAllAttendeesExceptSome"}

\* ------------------------------------------------------------------- C27
\* Nothing is left to refresh for resource r: its ledger is empty and no
\* Refresh work item is queued for it.
RefreshQuiet(r) == PendingOf(r) = {} /\ ~RefreshQueued(r)

\* The commit of a Refresh execution that drained a batch leaves fewer
\* pending rows for its resource than there were.
LedgerShrinks(p) ==
    (/\ pc[p] = "afterWork" /\ pc'[p] = "idle"
     /\ rec[cur[p]].workType = KRefresh
     /\ loc[p].attendeesToProcess # {})
    => LET r == rec[cur[p]].resourceID
       IN  Cardinality({x \in sra' : x.res = r}) < Cardinality(RowsOf(r))

\* C27: the triggers being finitely many, the chain of Refresh executions
\* and follow-ups of a resource ends: every execution that drains a batch
\* shrinks the ledger, and in the end the ledger is empty and no Refresh
\* work item is queued for the resource, for good.
C27_RefreshTerminates ==
    /\ [][\A p \in Workers : LedgerShrinks(p)]_vars
    /\ \A r \in ResourceIDs : <>[]RefreshQuiet(r)

\* C27 witness: the chain is over after a follow-up item, enqueued for the
\* one attendee a batch left, has run: nothing pending, nothing queued.
C27_Witness ==
    /\ RefreshQuiet(1)
    /\ SW = {}
    /\ \A p \in Workers : pc[p] = "idle"
    /\ \E i \in 1..(nextID - 1) :
           /\ rec[i].workType = KRefresh
           /\ rec[i].attendeeCount = 1

\* ------------------------------------------------------------------- C28
\* The (recipient, code) pairs of the responses handed to p's execution.
ResultsOf(p) == extractSchedulingResponse(loc[p].queuedResponses).results

\* Worker p has made the scheduling attempt of a Send or Reply item and the
\* responses hold a code that is neither delivered nor pending.
AttemptPermanent(p) ==
    /\ pc[p] \in {"afterWork", "raised"}
    /\ rec[cur[p]].workType \in {KSend, KReply}
    /\ \E i \in 1..Len(ResultsOf(p)) :
           ResultsOf(p)[i][2] \notin {MESSAGE_DELIVERED_CODE, MESSAGE_PENDING_CODE}

\* The (property, code) pairs the responses of p's execution call for: a
\* property of the resource's calendar whose address is that of a
\* non-delivered recipient, with the recipient's code.  An execution that
\* has no resource has no calendar.
CodesToWrite(p) ==
    IF loc[p].resource = None THEN {}
    ELSE {y \in PropsFor(rec[cur[p]].workType = KSend) \X Codes :
             /\ y[2] # MESSAGE_DELIVERED_CODE
             /\ \E i \in 1..Len(ResultsOf(p)) :
                    ResultsOf(p)[i] = <<y[1][2], y[2]>>}

\* The execution went on without raising: the results are as they came,
\* each non-delivered code is in the calendar data the execution writes,
\* and the dequeue hook was called.
WentOnPermanent(p) ==
    /\ pc[p] = "afterWork"
    /\ loc[p].raised = "none"
    /\ loc[p].dequeued = 1
    /\ loc[p].responses = ResultsOf(p)
    /\ \A y \in CodesToWrite(p) :
           \E w \in tx[p].status : w[1] = loc[p].resource /\ w[2][y[1]] = y[2]

\* The commit of the execution stores those codes.
StoresPermanent(p) ==
    (pc[p] = "afterWork" /\ pc'[p] = "idle" /\ AttemptPermanent(p))
    => \A y \in CodesToWrite(p) : caldata'[loc[p].resource][y[1]] = y[2]

\* C28: when the delivery responses hold a non-delivered code that is not
\* pending, the execution raises no temporary failure whatever the failure
\* count, writes each non-delivered code to the matching properties of its
\* calendar object in the same execution, and completes with the dequeue
\* hook called.
C28_PartialPermanent ==
    /\ [](\A p \in Workers : AttemptPermanent(p) => WentOnPermanent(p))
    /\ [][\A p \in Workers : StoresPermanent(p)]_vars

\* C28 witness: an Organizer-Send item that has failed before, under the
\* maximum, gets one pending and one no-user-support result and goes on to
\* write both codes.
C28_Witness ==
    \E p \in Workers :
        /\ AttemptPermanent(p)
        /\ pc[p] = "afterWork"
        /\ job[cur[p]].failed = MaxTemporaryFailures - 1
        /\ job[cur[p]].failed > 0
        /\ {y[2] : y \in CodesToWrite(p)} = {MESSAGE_PENDING_CODE, NO_USER_SUPPORT_CODE}

\* ------------------------------------------------------------------- C29
\* Worker p has made the scheduling attempt of a Send or Reply item and
\* every request status of the responses has the delivered code before its
\* ';'.
AttemptDelivered(p) ==
    /\ pc[p] \in {"afterWork", "raised"}
    /\ rec[cur[p]].workType \in {KSend, KReply}
    /\ LET items == Flatten(loc[p].queuedResponses)
       IN  \A i \in 1..Len(items) :
               items[i].reqstatus = ReqStatus(MESSAGE_DELIVERED_CODE)

\* The execution went on with nothing to write, and what it did with the
\* responses is the same for every failure count.
WentOnDelivered(p) ==
    /\ pc[p] = "afterWork"
    /\ loc[p].raised = "none"
    /\ loc[p].dequeued = 1
    /\ tx[p].status = {}
    /\ \A failed \in 0..(MaxTemporaryFailures + 1) :
           processResponses(loc[p].resource, loc[p].queuedResponses, failed,
                            rec[cur[p]].workType = KSend)
               = [raise |-> FALSE, responses |-> ResultsOf(p), write |-> {}]

\* The commit of the execution leaves every calendar object as it was.
CalendarUnchanged(p) ==
    (pc[p] = "afterWork" /\ pc'[p] = "idle" /\ AttemptDelivered(p))
    => caldata' = caldata

\* C29: when every response status code (the part before ';') is the
\* delivered code, the execution does the same whatever the failure count,
\* writes no calendar object and sets no SCHEDULE-STATUS parameter: the
\* calendar data is unchanged.
C29_DeliveredOnly ==
    /\ [](\A p \in Workers : AttemptDelivered(p) => WentOnDelivered(p))
    /\ [][\A p \in Workers : CalendarUnchanged(p)]_vars

\* C29 witness: an Organizer-Send item that has failed before and has a
\* resource gets two delivered results.
C29_Witness ==
    \E p \in Workers :
        /\ AttemptDelivered(p)
        /\ pc[p] = "afterWork"
        /\ rec[cur[p]].workType = KSend
        /\ loc[p].resource # None
        /\ Len(ResultsOf(p)) = 2
        /\ job[cur[p]].failed > 0

\* ------------------------------------------------------------------- C30
\* Worker p's execution has called handleSchedulingResponse: it has a
\* resource, a result that is not delivered, and went on.
HandledResponse(p) ==
    /\ pc[p] = "afterWork"
    /\ rec[cur[p]].workType \in {KSend, KReply}
    /\ loc[p].resource # None
    /\ ~extractSchedulingResponse(loc[p].queuedResponses).all_delivered

\* The properties of the kind looked at (ATTENDEE for the organizer's send,
\* ORGANIZER for a reply) whose address is a non-delivered recipient of the
\* response handed to handleSchedulingResponse.
PropsToSet(p) ==
    {q \in Props :
        /\ q[1] = IF rec[cur[p]].workType = KSend THEN "ATTENDEE" ELSE "ORGANIZER"
        /\ \E i \in 1..Len(loc[p].responses) :
               /\ loc[p].responses[i][1] = q[2]
               /\ loc[p].responses[i][2] # MESSAGE_DELIVERED_CODE}

\* The calendar handleSchedulingResponse leaves: the recipient's code on
\* the properties to set, every other property as it was.
CalendarAfter(p) ==
    [q \in Props |->
        IF q \in PropsToSet(p)
        THEN (CHOOSE r \in {loc[p].responses[i] : i \in 1..Len(loc[p].responses)} :
                  r[1] = q[2])[2]
        ELSE caldata[loc[p].resource][q]]

\* The calendar object is persisted, with that calendar, exactly when a
\* property was set.
WritesBack(p) ==
    HandledResponse(p) =>
        tx[p].status = IF PropsToSet(p) # {}
                       THEN {<<loc[p].resource, CalendarAfter(p)>>}
                       ELSE {}

\* The commit of the execution stores that calendar.
PersistsCalendar(p) ==
    (pc[p] = "afterWork" /\ pc'[p] = "idle" /\ HandledResponse(p))
    => caldata' = [caldata EXCEPT ![loc[p].resource] = CalendarAfter(p)]

\* C30: handleSchedulingResponse sets the delivery status to the
\* recipient's code on every property whose address is a non-delivered
\* recipient (ATTENDEE properties for the organizer's send, ORGANIZER
\* properties otherwise), leaves the properties of delivered recipients and
\* of recipients not in the response unchanged, and the calendar object is
\* persisted if and only if a property was set.
C30_StatusWriteBack ==
    /\ [](\A p \in Workers : WritesBack(p))
    /\ [][\A p \in Workers : PersistsCalendar(p)]_vars

\* C30 witness: a send sets the code of one recipient while the property
\* of the delivered recipient keeps the status an earlier send stored, and
\* the property of an attendee not in the response has none.
C30_Witness ==
    \E p \in Workers :
        /\ HandledResponse(p)
        /\ rec[cur[p]].workType = KSend
        /\ PropsToSet(p) = {<<"ATTENDEE", "B">>}
        /\ Len(loc[p].responses) = 2
        /\ caldata[loc[p].resource][<<"ATTENDEE", "A">>] = NO_USER_SUPPORT_CODE
        /\ \E w \in tx[p].status :
               /\ w[2][<<"ATTENDEE", "A">>] = NO_USER_SUPPORT_CODE
               /\ w[2][<<"ATTENDEE", "B">>] = MESSAGE_PENDING_CODE
               /\ w[2][<<"ATTENDEE", "C">>] = NoStatus

\* ------------------------------------------------------------------- C31
\* The UID worker p's execution calls the scheduling collaborator for: the
\* item's UID for the organizer kinds and the reply, the UID of the
\* resource for a refresh or an automatic reply.
CalledFor(p) ==
    IF rec[cur[p]].workType \in {KRefresh, KAutoReply}
    THEN UidOf(loc[p].resource)
    ELSE rec[cur[p]].icalendarUID

\* The transaction of worker p has called the collaborator and is open.
Called(p) == pc[p] \in {"afterWork", "raised"} /\ loc[p].sent # {}

\* The step in which worker p calls the collaborator starts with the lock
\* free or its own and no mutator in the collaborator for the UID.
CallsUnderLock(p) ==
    (loc[p].sent = {} /\ loc'[p].sent # {})
    => /\ namedLock[CalledFor(p)'] \in {0, p}
       /\ CalledFor(p)' \notin inside
       /\ namedLock'[CalledFor(p)'] = p

\* C31: an execution of any kind calls the scheduling collaborator for a
\* UID only with the named lock of that UID held by its transaction, which
\* keeps it to the end of the transaction, so a queued execution and a
\* synchronous mutator are never in the collaborator for one UID together.
C31_ImplicitLock ==
    /\ [](\A p \in Workers :
            Called(p) => /\ namedLock[CalledFor(p)] = p
                         /\ CalledFor(p) \notin inside)
    /\ [](\A u \in inside : namedLock[u] = Mutator)
    /\ [][\A p \in Workers : CallsUnderLock(p)]_vars

\* C31 witness: a refresh has called the collaborator for the UID of its
\* resource and holds the lock, which keeps a mutator of that UID, not in
\* the collaborator, waiting.
C31_Witness ==
    \E p \in Workers :
        /\ Called(p)
        /\ rec[cur[p]].workType = KRefresh
        /\ namedLock[CalledFor(p)] = p
        /\ ResourceOfUid(CalledFor(p)) \in resources
        /\ CalledFor(p) \notin inside
        /\ ~CanAcquire(Mutator, CalledFor(p))

\* ------------------------------------------------------------------- C32
\* The claim as stated: every SCHEDULE_WORK row has its work item row, and
\* a SCHEDULE_WORK row goes only in a step that deletes its work item row.
C32_Original ==
    /\ [](SW \subseteq IT)
    /\ [][\A i \in SW \ SW' : i \in IT /\ i \notin IT']_vars

\* Worker p commits the execution of item i.
CommitsItem(p, i) == pc[p] = "afterWork" /\ cur[p] = i /\ pc'[p] = "idle"

\* A SCHEDULE_WORK row is deleted by the commit of the execution of its
\* item, which takes the work item row with it, or, when its work item row
\* is gone and no worker has loaded the item, by loadForJob; the job goes
\* in the same step.
GroupRowDeletes ==
    \A i \in SW \ SW' :
        /\ i \notin IT'
        /\ i \in JOB /\ i \notin JOB'
        /\ \/ \E p \in Workers : CommitsItem(p, i)
           \/ i \notin IT /\ \A p \in Workers : cur[p] # i

\* A work item row that goes while its SCHEDULE_WORK row stays is an
\* Auto-Reply row deleted by the execution of an Auto-Reply item of the
\* same resource.
ItemRowDeletes ==
    \A i \in (IT \ IT') \cap SW' :
        \E p \in Workers :
            /\ pc[p] = "afterWork" /\ pc'[p] = "idle"
            /\ rec[cur[p]].workType = KAutoReply
            /\ rec[i].workType = KAutoReply
            /\ rec[i].resourceID = rec[cur[p]].resourceID

\* C32, amended: the SCHEDULE_WORK row is the row that is deleted, by the
\* commit of its item's execution, and the work item row goes with it by
\* cascade; an Auto-Reply execution deletes work item rows alone and leaves
\* their SCHEDULE_WORK rows, which loadForJob deletes by themselves when
\* their jobs come up; no job ends with its SCHEDULE_WORK row left, and
\* every work item row has its SCHEDULE_WORK row.
C32_WorkGroupDeletes ==
    /\ [](IT \subseteq SW)
    /\ [][GroupRowDeletes /\ ItemRowDeletes]_vars
    /\ [][\A i \in JOB \ JOB' : i \notin SW']_vars

\* C32 witness: an Auto-Reply item that never ran has neither row nor job
\* left: its work item row went with a sibling's execution and its
\* SCHEDULE_WORK row with loadForJob.
C32_Witness ==
    \E i \in 1..(nextID - 1) :
        /\ rec[i].workType = KAutoReply
        /\ i \notin SW \cup IT \cup JOB
        /\ i \notin drain.completed
        /\ \A p \in Workers : cur[p] # i

\* ------------------------------------------------------------------- C33
\* Worker p is past the doWork of an organizer item that has no resource
\* id.
RanWithoutResourceID(p) ==
    /\ pc[p] \in {"afterWork", "raised"}
    /\ rec[cur[p]].workType \in {KOrganizer, KSend}
    /\ rec[cur[p]].resourceID = None

\* The collaborator was called for the item.
Delegated(p) ==
    loc[p].sent = IF rec[cur[p]].workType = KOrganizer
                  THEN {"queuedOrganizerProcessing"}
                  ELSE {"queuedOrganizerSending"}

\* Worker p is past the doWork of a send for which the collaborator
\* reported no resource.
SentWithoutResource(p) ==
    /\ pc[p] \in {"afterWork", "raised"}
    /\ rec[cur[p]].workType = KSend
    /\ loc[p].resource = None

\* The execution went on with the responses untouched and nothing to
\* write, and called the dequeue hook.
WentOnUnexamined(p) ==
    /\ pc[p] = "afterWork"
    /\ loc[p].raised = "none"
    /\ loc[p].responses = ResultsOf(p)
    /\ tx[p].status = {}
    /\ loc[p].dequeued = 1

\* The commit of such a send completes the item and leaves the calendar
\* data as it was.
CompletesUnwritten(p) ==
    (pc[p] = "afterWork" /\ pc'[p] = "idle" /\ SentWithoutResource(p))
    => /\ caldata' = caldata
       /\ cur[p] \notin SW' \cup IT' \cup JOB'

\* C33: an Organizer-Coalesce or Organizer-Send item with no resource id
\* is run and calls the scheduling collaborator; when the collaborator of a
\* send reports no resource the responses are not examined: no temporary
\* failure even if all are pending, nothing written, and the item
\* completes.
C33_MissingTolerated ==
    /\ [](\A p \in Workers :
            /\ RanWithoutResourceID(p) => Delegated(p)
            /\ SentWithoutResource(p) => WentOnUnexamined(p))
    /\ [][\A p \in Workers : CompletesUnwritten(p)]_vars

\* C33 witness: a send with no resource id, its failure count under the
\* maximum, got pending responses from a collaborator that found no
\* resource and went on, after an Organizer-Coalesce item with no resource
\* id had completed.
C33_Witness ==
    \E p \in Workers :
        /\ RanWithoutResourceID(p)
        /\ SentWithoutResource(p)
        /\ pc[p] = "afterWork"
        /\ AllPending(ResultsOf(p))
        /\ Len(ResultsOf(p)) = 2
        /\ job[cur[p]].failed < MaxTemporaryFailures
        /\ \E i \in drain.completed :
               rec[i].workType = KOrganizer /\ rec[i].resourceID = None

\* ------------------------------------------------------------------- C34
\* The work items a step creates.
CreatedNow == nextID..(nextID' - 1)

\* The step is a call of migrate that created item i.
CreatedByMigrate(i) == migrated' # migrated /\ migrated'.created = i

\* C34: a work item enqueued by schedule, reply, refreshAttendees or
\* autoReply called with no pause argument, a send enqueued by an
\* Organizer-Coalesce execution and a follow-up enqueued by a Refresh
\* execution are created with pause unset; an item is created with pause
\* set only by migrate.
C34_CreatedUnpaused ==
    [][\A i \in CreatedNow :
          /\ job'[i].pause \in {0, 1}
          /\ ~CreatedByMigrate(i) => job'[i].pause = 0
          /\ job'[i].pause = 1 => CreatedByMigrate(i)]_vars

\* C34 witness: the paused copy migrate made of a Refresh item is queued
\* next to the unpaused follow-up the execution of the original enqueued.
C34_Witness ==
    \E i, k \in JOB :
        /\ migrated.created = i
        /\ job[i].pause = 1
        /\ rec[k].workType = KRefresh
        /\ rec[k].attendeeCount = 1
        /\ k > i
        /\ job[k].pause = 0

\* ------------------------------------------------------------------- C35
\* A call of migrate has just returned for work item w.
MigrateReturned(w) == migrated' # migrated /\ migrated'.work = w

\* The call created one item: the paused item of the kind of w under the
\* home and resource the callback resolved, and returned True.
CreatedPausedEquivalent(w) ==
    LET n == migrated'.created
    IN  /\ migrated'.result
        /\ n = nextID /\ nextID' = nextID + 1
        /\ SW' = SW \cup {n} /\ IT' = IT \cup {n} /\ JOB' = JOB \cup {n}
        /\ rec'[n].workType = rec[w].workType
        /\ rec'[n].icalendarUID = rec[w].icalendarUID
        /\ rec'[n].attendee = rec[w].attendee
        /\ rec'[n].homeResourceID = migrated'.new_home
        /\ rec'[n].resourceID = migrated'.new_resource
        /\ job'[n].pause = 1

\* The call created nothing and returned False.
DroppedByMigrate ==
    /\ ~migrated'.result
    /\ UNCHANGED <<rec, job, SW, IT, JOB, nextID, sra, nextRow, queued>>

\* C35: migrate of an Organizer-Coalesce, Organizer-Send or Attendee-Reply
\* item that has no resource id creates the paused equivalent item and
\* returns True, whether or not the callback resolves a resource; migrate
\* of an Attendee-Refresh or Auto-Reply item creates nothing and returns
\* False whenever the callback resolves no resource.
C35_MigrateNotYetCreated ==
    [][\A w \in WorkIDs :
          MigrateReturned(w) =>
              /\ (rec[w].workType \in {KOrganizer, KSend, KReply}
                     /\ rec[w].resourceID = None)
                  => CreatedPausedEquivalent(w)
              /\ (rec[w].workType \in {KRefresh, KAutoReply}
                     /\ migrated'.new_resource = None)
                  => DroppedByMigrate]_vars

\* C35 witness: a reply with no resource id was migrated with no resource
\* resolved, and its paused copy, with no resource id either, is queued.
C35_Witness ==
    /\ migrated.result
    /\ migrated.new_resource = None
    /\ rec[migrated.work].workType = KReply
    /\ rec[migrated.work].resourceID = None
    /\ migrated.created \in JOB \cap SW \cap IT
    /\ rec[migrated.created].resourceID = None
    /\ job[migrated.created].pause = 1

\* ------------------------------------------------------------------- C36
\* The committed Auto-Reply rows with the resource id of the item worker p
\* runs.
AutoReplyRowsOf(p) ==
    {i \in IT : /\ rec[i].workType = KAutoReply
                /\ rec[i].resourceID = rec[cur[p]].resourceID}

\* The Delete of an Auto-Reply execution takes the Auto-Reply rows of its
\* resource that are there when it runs, and the commit of the execution
\* removes those rows and the item's own, and no other work item row.
CollapsesSiblings(p) ==
    /\ (/\ pc[p] = "doWork" /\ pc'[p] # "doWork"
        /\ rec[cur[p]].workType = KAutoReply)
       => tx'[p].delItems = AutoReplyRowsOf(p)
    /\ (/\ pc[p] = "afterWork" /\ pc'[p] = "idle"
        /\ rec[cur[p]].workType = KAutoReply)
       => IT' = IT \ (tx[p].delItems \cup {cur[p]})

\* Worker p is in the doWork of an Auto-Reply item whose row another
\* execution has deleted.
RunsDeleted(p) ==
    /\ pc[p] \in {"doWork", "afterWork", "raised"}
    /\ rec[cur[p]].workType = KAutoReply
    /\ cur[p] \notin IT

\* C36: an Auto-Reply execution deletes every other queued Auto-Reply row
\* with its resource id and no row of another resource or kind, and an item
\* whose row was deleted that way never runs doWork afterwards, so at most
\* one item of a burst sends a reply.
C36_AutoReplyCollapse ==
    /\ [](\A p \in Workers : ~RunsDeleted(p))
    /\ [][\A p \in Workers : CollapsesSiblings(p)]_vars

\* The Organizer-Send attempt of worker p ends in this step after doWork
\* raised, a temporary failure or another error.
SendFailed(p) ==
    /\ pc[p] = "raised"
    /\ pc'[p] = "idle"
    /\ rec[cur[p]].workType = KSend

\* The step of a worker (not the passing of time) that brings the queued job i
\* forward to now.
BroughtForward(i) ==
    /\ i \in JOB
    /\ pc' # pc
    /\ job[i].notBefore > 0
    /\ job'[i].notBefore = 0

\* The step is the afterWork and commit of an execution whose doWork returned.
AfterReturn(p) ==
    /\ pc[p] = "afterWork"
    /\ pc'[p] = "idle"
    /\ loc[p].raised = "none"
    /\ loc[p].dequeued = 1

\* C37: the step that ends an Organizer-Send attempt whose doWork raised (a
\* temporary failure or any other error) changes the notBefore of no job but
\* its own; a queued job is brought forward to now only by the afterWork step
\* of another Organizer-Send execution whose doWork returned normally.
C37_ChainAfterSuccess ==
    [][/\ \A p \in Workers :
            SendFailed(p) => Rescheduled \subseteq {cur[p]}
       /\ \A i \in WorkIDs :
            BroughtForward(i) =>
                \E p \in Workers : /\ AfterReturn(p)
                                   /\ rec[cur[p]].workType = KSend
                                   /\ cur[p] # i]_vars

\* An Organizer-Send job that failed is queued again, no worker has it, and a
\* sibling of the same UID still waits for its time.
C37_Witness ==
    \E i \in JOB, k \in JOB :
        /\ i # k
        /\ rec[i].workType = KSend
        /\ rec[k].workType = KSend
        /\ rec[k].icalendarUID = rec[i].icalendarUID
        /\ job[i].failed > 0
        /\ job[k].notBefore > 0
        /\ \A p \in Workers : cur[p] \notin {i, k}
\* C38: the completion notification is one-shot and safe under interleaving:
\* after an arming by allDone the callback is invoked at most once, and no
\* post-commit hook invokes a callback that was already cleared.
C38_NotifyOnce == drain.fired <= 1 /\ ~drain.error
\* The items enqueued since allDone was armed whose execution has not
\* committed: queued, or in the hands of a worker.
NotCompleted == EnqueuedSince \ drain.completed

\* The step runs a post-commit hook that fires the notification.
FiresNow == drain'.fired > drain.fired

\* C39: allDone having been armed with nothing queued, in every state the
\* in-flight counter is non-negative and at least the number of items
\* enqueued since then that have not completed, and the notification never
\* fires while such an item is still queued or executing.
C39_InFlightCounter ==
    /\ [](drain.armedAt > 0 =>
            queued >= 0 /\ queued >= Cardinality(NotCompleted))
    /\ [][FiresNow =>
            \A w \in WorkIDs :
                drain.armedAt <= w /\ w < nextID => w \in drain'.completed]_vars
\* The UIDs whose named lock the next statement of worker p acquires.
AcquiresFor(p) ==
    IF pc[p] = "doWork" /\ rec[cur[p]].workType \in {KOrganizer, KSend, KReply}
    THEN {rec[cur[p]].icalendarUID}
    ELSE IF \/ pc[p] = "doWork" /\ rec[cur[p]].workType = KAutoReply
            \/ pc[p] = "delete"
         THEN {UidOf(r) : r \in {rec[cur[p]].resourceID} \cap resources}
         ELSE {}

\* The transactions x waits for: a worker for the holder of the named lock
\* it acquires, the mutator for the holders of the rows its deletion needs.
WaitsFor(x) ==
    IF x = Mutator
    THEN UNION {RowHolders(CascadeRows(r)) : r \in removing}
    ELSE {namedLock[u] : u \in AcquiresFor(x)} \ {0, x}

\* A worker that has no job holds no lock, and the mutator out of the
\* collaborator holds no named lock.
NoLockLeak ==
    /\ \A p \in Workers :
          pc[p] = "idle" => /\ locks[p] = {}
                            /\ ~loc[p].ownLock
                            /\ tx[p].delItems = {}
                            /\ \A u \in UIDs : namedLock[u] # p
    /\ \A u \in UIDs : namedLock[u] = Mutator => u \in inside

\* C40: no set of workers and synchronous mutators has each of its members
\* waiting for a lock held by another member, and no lock is held by a
\* transaction that has ended.
C40_NoDeadlockNoLeak ==
    /\ \A S \in SUBSET (Workers \cup {Mutator}) :
          S # {} => \E x \in S : WaitsFor(x) \cap S = {}
    /\ NoLockLeak
====
